---- MODULE Spec2Model ----
(***************************************************************************)
(* Enterprise AI Assistant: the agent workflow graph (agent/agent_workflow), *)
(* the /query handler (main.py), the guardrails and validate_sql.           *)
(*                                                                         *)
(* An SQL text is modelled as the sequence of its tokens; the text is the   *)
(* tokens joined by single blanks, so a regular expression over the text    *)
(* is evaluated token by token.                                             *)
(***************************************************************************)
EXTENDS Naturals, Integers, Sequences, FiniteSets, TLC

VARIABLES
    sql,              \* SpecSql: the SQL text handed to validate_sql
    verdict,          \* SpecSql: validate_sql's return value, or NoVerdict
    graph,            \* self.graph: "none" or "built"
    caller,           \* who called invoke: "http" (the /query handler) or "direct"
    stats,            \* GuardrailService._stats
    pc,               \* position of the request: handler, graph node, or done
    query,            \* the user's message (its guardrail-relevant features)
    messages,         \* AgentState.messages
    intent,           \* AgentState.intent
    guardrail_results,\* AgentState.guardrail_results
    cost_info,        \* AgentState.cost_info
    tools_used,       \* AgentState.tools_used
    steps,            \* supersteps executed by graph.invoke in this run
    trace,            \* the nodes executed in this run, in order
    rounds,           \* tool rounds (tools node executions) of this run
    llm_calls,        \* every LLM call made while serving the request
    tool_calls,       \* the adapters the tools node has executed
    validations,      \* number of validate_sql calls made in this run
    db_calls,         \* number of DatabaseManager.execute_query calls of this run
    result,           \* what invoke returned (or Raised), NoResult before
    http,             \* the /query response, NoResponse before
    cost_rows,        \* rows written by record_cost
    exec,             \* SpecExec: one call of NLToSQLService.execute
    guard,            \* SpecGuard: the check_input calls made and get_stats' copy
    mask,             \* SpecMask: one call of mask_sensitive_data
    pool,             \* SpecPool: the /query requests and the thread pool
    seed,             \* SpecSeed: the datasets written by seed_database runs
    adapter,          \* SpecAdapter: the tool adapters' backends and last call
    lazy,             \* SpecLazy: threads inside one lazy backend getter
    race,             \* SpecRace: threads inside check_input's stats update
    conn,             \* SpecConn: the connections execute_query has opened
    clean             \* SpecClean: one call of _clean_messages

sqlVars == <<sql, verdict>>
flowRest == <<graph, caller, pc, query, messages, intent, guardrail_results, cost_info,
              tools_used, steps, trace, rounds, llm_calls, tool_calls,
              validations, db_calls, result, http, cost_rows>>
flowVars == <<stats, flowRest>>
lateVars == <<adapter, lazy, race, conn, clean>>
auxVars == <<exec, guard, mask, pool, seed, lateVars>>
vars == <<sqlVars, flowVars, auxVars>>

(***************************************************************************)
(* Bounds                                                                  *)
(***************************************************************************)
MaxSqlLen == 4        \* tokens in an enumerated SQL text
MaxVariedRounds == 1  \* tool rounds whose outcome is drawn from every outcome
MaxTailLen == 4       \* tokens after "SELECT name" in an enumerated table text
MaxGenLen == 2        \* tokens in an enumerated SQL text the LLM generates
MaxChecks == 3        \* check_input calls made on one GuardrailService
MaxRows == 2          \* rows handed to mask_sensitive_data
MaxRequests == 5      \* /query requests received by the API process
MaxSeedRuns == 2      \* runs of seed_database, each on an empty target
MaxSeedRows == 3      \* customers a run inserts (500 in the code)
MaxDaysAgo == 3       \* upper end of random.randint(1, 730)
MaxClock == 12        \* seconds of wall-clock time that pass
MaxAdapterCalls == 3  \* adapter calls made in one process
MaxThreads == 2       \* threads inside the same function at once
MaxDbCalls == 8       \* execute_query calls on one DatabaseManager
MaxGetterCalls == 3   \* calls of one lazy backend getter
MaxMessages == 2      \* messages in the history given to _clean_messages

(***************************************************************************)
(* utils/sql_utils.py                                                      *)
(***************************************************************************)
BLOCKED_OPERATIONS_NoDelete ==
    <<"DROP", "UPDATE", "INSERT", "ALTER", "CREATE", "TRUNCATE", "EXEC",
      "EXECUTE", "GRANT", "REVOKE", "ATTACH", "DETACH", "VACUUM", "REINDEX",
      "PRAGMA">>

BLOCKED_OPERATIONS ==
    <<"DROP", "DELETE", "UPDATE", "INSERT", "ALTER", "CREATE", "TRUNCATE",
      "EXEC", "EXECUTE", "GRANT", "REVOKE", "ATTACH", "DETACH", "VACUUM",
      "REINDEX", "PRAGMA">>

ALLOWED_TABLES ==
    {"customers", "products", "orders", "order_items", "reviews",
     "inventory_log"}

sql_keywords ==
    {"select", "where", "and", "or", "not", "null", "as", "on", "in", "is",
     "by", "asc", "desc", "case", "when", "then", "else", "end", "between",
     "like", "having", "union", "all", "exists", "each", "lateral"}

\* Tokens that are not \w+ words.
Symbols == {"'", ";", ";;", "--", "/*", "(", ")", ",", "*", "="}

\* The tokens that contain the character ";" (";;" is two of them in a row).
Semicolons == {";", ";;"}

IsWord(t) == t \notin Symbols

\* str.upper() on a token.
Upper(t) ==
    CASE t = "select" -> "SELECT"
      [] t = "with" -> "WITH"
      [] t = "from" -> "FROM"
      [] t = "join" -> "JOIN"
      [] t = "as" -> "AS"
      [] t = "drop" -> "DROP"
      [] t = "delete" -> "DELETE"
      [] t = "update" -> "UPDATE"
      [] t = "union" -> "UNION"
      [] t = "customers" -> "CUSTOMERS"
      [] t = "products" -> "PRODUCTS"
      [] t = "orders" -> "ORDERS"
      [] t = "secret_data" -> "SECRET_DATA"
      [] t = "cost_tracking" -> "COST_TRACKING"
      [] t = "sqlite_master" -> "SQLITE_MASTER"
      [] t = "name" -> "NAME"
      [] t = "o" -> "O"
      [] t = "cte" -> "CTE"
      [] t = "sales" -> "SALES"
      [] OTHER -> t

\* str.lower() on a token.
Lower(t) ==
    CASE t = "SELECT" -> "select"
      [] t = "WITH" -> "with"
      [] t = "FROM" -> "from"
      [] t = "JOIN" -> "join"
      [] t = "AS" -> "as"
      [] t = "DROP" -> "drop"
      [] t = "DELETE" -> "delete"
      [] t = "UPDATE" -> "update"
      [] t = "UNION" -> "union"
      [] t = "TABLE" -> "table"
      [] t = "CUSTOMERS" -> "customers"
      [] t = "PRODUCTS" -> "products"
      [] t = "ORDERS" -> "orders"
      [] t = "SECRET_DATA" -> "secret_data"
      [] t = "COST_TRACKING" -> "cost_tracking"
      [] t = "SQLITE_MASTER" -> "sqlite_master"
      [] t = "NAME" -> "name"
      [] t = "O" -> "o"
      [] t = "CTE" -> "cte"
      [] t = "SALES" -> "sales"
      [] t = "CUSTOMER" -> "customer"
      [] t = "PRODUCT" -> "product"
      [] t = "ORDER" -> "order"
      [] t = "SECRET_DAT" -> "secret_dat"
      [] t = "COST_TRACKIN" -> "cost_trackin"
      [] t = "SQLITE_MASTE" -> "sqlite_maste"
      [] t = "SALE" -> "sale"
      [] t = "NAM" -> "nam"
      [] t = "CT" -> "ct"
      [] t = "EXTRACT" -> "extract"
      [] t = "EXTRAC" -> "extrac"
      [] t = "ALL" -> "all"
      [] t = "MONTH" -> "month"
      [] t = "MONT" -> "mont"
      [] OTHER -> t

\* A word without its last character: what (\w+) keeps when the regex engine
\* backtracks one character ("" when the word has a single character).
ChopLast(t) ==
    CASE t = "CUSTOMERS" -> "CUSTOMER"
      [] t = "PRODUCTS" -> "PRODUCT"
      [] t = "ORDERS" -> "ORDER"
      [] t = "SECRET_DATA" -> "SECRET_DAT"
      [] t = "COST_TRACKING" -> "COST_TRACKIN"
      [] t = "SQLITE_MASTER" -> "SQLITE_MASTE"
      [] t = "SALES" -> "SALE"
      [] t = "NAME" -> "NAM"
      [] t = "CTE" -> "CT"
      [] t = "SELECT" -> "SELEC"
      [] t = "FROM" -> "FRO"
      [] t = "JOIN" -> "JOI"
      [] t = "WITH" -> "WIT"
      [] t = "DROP" -> "DRO"
      [] t = "DELETE" -> "DELET"
      [] t = "UPDATE" -> "UPDAT"
      [] t = "UNION" -> "UNIO"
      [] t = "TABLE" -> "TABL"
      [] t = "AS" -> "A"
      [] t = "EXTRACT" -> "EXTRAC"
      [] t = "ALL" -> "AL"
      [] t = "MONTH" -> "MONT"
      [] OTHER -> ""

UpperSeq(s) == [i \in 1..Len(s) |-> Upper(s[i])]

\* Index of the first "'" at or after position i, 0 when there is none.
RECURSIVE NextQuote(_, _)
NextQuote(s, i) ==
    IF i > Len(s) THEN 0
    ELSE IF s[i] = "'" THEN i
    ELSE NextQuote(s, i + 1)

\* re.sub(r"'[^']*'", "", s): every quote that has a later quote is removed
\* together with the text up to that quote; an unpaired quote stays.
RECURSIVE StripFrom(_, _)
StripFrom(s, i) ==
    IF i > Len(s) THEN <<>>
    ELSE IF s[i] = "'" /\ NextQuote(s, i + 1) # 0
         THEN StripFrom(s, NextQuote(s, i + 1) + 1)
         ELSE <<s[i]>> \o StripFrom(s, i + 1)

StripLiterals(s) == StripFrom(s, 1)

Tokens(s) == {s[i] : i \in 1..Len(s)}

\* The first blocked operation found as a whole word, "" when there is none.
RECURSIVE FirstBlocked(_, _)
FirstBlocked(toks, k) ==
    IF k > Len(BLOCKED_OPERATIONS) THEN ""
    ELSE IF BLOCKED_OPERATIONS[k] \in toks THEN BLOCKED_OPERATIONS[k]
    ELSE FirstBlocked(toks, k + 1)

\* sql_no_strings.rstrip(";").rstrip() for the text s and its literal-free
\* form: the final run of ";" goes when it ends the text, which it does when
\* the text ends with a token of semicolons (a literal removed behind a ";"
\* leaves a blank there, and the ";" stays).
RStripSemicolonNever(s, no_strings) == no_strings

RStripSemicolon(s, no_strings) ==
    IF Len(s) > 0 /\ s[Len(s)] \in Semicolons /\ Len(no_strings) > 0
    THEN SubSeq(no_strings, 1, Len(no_strings) - 1)
    ELSE no_strings

\* Index of the first token equal to t at or after i, 0 when there is none.
RECURSIVE IndexFrom(_, _, _)
IndexFrom(s, t, i) ==
    IF i > Len(s) THEN 0
    ELSE IF s[i] = t THEN i
    ELSE IndexFrom(s, t, i + 1)

\* re.search(r"\bWITH\s+(.*?)\bSELECT\b"): the text between the first WITH
\* and the first SELECT after it; empty when nothing matches.
CteBlock(s) ==
    LET w == IndexFrom(s, "WITH", 1)
        e == IF w = 0 THEN 0 ELSE IndexFrom(s, "SELECT", w + 1)
    IN  IF w = 0 \/ e = 0 THEN <<>> ELSE SubSeq(s, w + 1, e - 1)

\* re.finditer(r"(\w+)\s+AS\s*\(", block): the names of the CTEs.
CteNames(s) ==
    LET b == CteBlock(s)
    IN  {Lower(b[k]) : k \in {j \in 1..Len(b) :
                                /\ j + 2 <= Len(b)
                                /\ IsWord(b[j])
                                /\ b[j + 1] = "AS"
                                /\ b[j + 2] = "("}}

\* re.findall(r"\b(?:FROM|JOIN)\s+(\w+)(?!\s*\()"): matches do not overlap;
\* a word followed by "(" matches without its last character.
RECURSIVE TableMatches(_, _)
TableMatches(s, i) ==
    IF i >= Len(s) THEN {}
    ELSE IF s[i] \in {"FROM", "JOIN"} /\ IsWord(s[i + 1])
         THEN IF i + 2 <= Len(s) /\ s[i + 2] = "("
              THEN IF ChopLast(s[i + 1]) = ""
                   THEN TableMatches(s, i + 1)
                   ELSE {ChopLast(s[i + 1])} \cup TableMatches(s, i + 2)
              ELSE {s[i + 1]} \cup TableMatches(s, i + 2)
         ELSE TableMatches(s, i + 1)

\* TRUE when no ")" lies in s[a..b].
NoCloseParen(s, a, b) == \A k \in a..b : s[k] # ")"

\* re.finditer(r"\bEXTRACT\s*\([^)]*\bFROM\s+(\w+)"): the column names.
ExtractColumns(s) ==
    {s[f + 1] : f \in {j \in 1..Len(s) :
        /\ j + 1 <= Len(s)
        /\ s[j] = "FROM"
        /\ IsWord(s[j + 1])
        /\ \E e \in 1..j :
             /\ e + 2 <= j
             /\ s[e] = "EXTRACT"
             /\ s[e + 1] = "("
             /\ NoCloseParen(s, e + 2, j - 1)}}

Valid == [valid |-> TRUE, error |-> ""]
Invalid(msg) == [valid |-> FALSE, error |-> msg]

\* Lines 74-148: the tables referenced that are neither allowed, nor CTE
\* names, nor keywords, nor EXTRACT columns, nor short enough to be aliases.
TrulyInvalid(sql_clean, allowed_tables) ==
    LET referenced == {Lower(t) : t \in TableMatches(sql_clean, 1)}
        extract == {Lower(t) : t \in ExtractColumns(sql_clean)}
        kept == ((referenced \ CteNames(sql_clean)) \ sql_keywords) \ extract
        invalid_tables == kept \ {Lower(t) : t \in allowed_tables}
    IN  {t \in invalid_tables : Len(t) > 3}

\* The tokens of the model that begin with the characters of prefix.
HasPrefix(t, prefix) ==
    \/ t = prefix
    \/ prefix = "SELECT" /\ t = "SELECTED"
    \/ prefix = "WITH" /\ t = "WITHIN"
    \/ prefix = "EXEC" /\ t = "EXECUTE"

\* text.startswith(prefix): decided by the first token.
StartsWith(s, prefix) == Len(s) > 0 /\ HasPrefix(s[1], prefix)

validate_sql(text, allowed_tables) ==
    LET sql_upper == UpperSeq(text)
        blocked == FirstBlocked(Tokens(StripLiterals(sql_upper)), 1)
        sql_no_strings == StripLiterals(text)
    IN  IF ~StartsWith(sql_upper, "SELECT") /\ ~StartsWith(sql_upper, "WITH")
        THEN Invalid("Only SELECT queries are allowed")
        ELSE IF blocked # ""
        THEN Invalid("Blocked operation detected: " \o blocked)
        ELSE IF Tokens(RStripSemicolon(text, sql_no_strings)) \cap Semicolons # {}
        THEN Invalid("Multiple statements not allowed")
        ELSE IF "--" \in Tokens(sql_no_strings) \/ "/*" \in Tokens(sql_no_strings)
        THEN Invalid("SQL comments not allowed in generated queries")
        ELSE IF TrulyInvalid(StripLiterals(sql_upper), allowed_tables) # {}
        THEN Invalid("Referenced disallowed tables")
        ELSE Valid

(***************************************************************************)
(* guardrails/patterns.py, guardrails/output_guardrails.py                  *)
(***************************************************************************)
\* ;\s*(?:DROP|DELETE|UPDATE|INSERT|ALTER|CREATE|TRUNCATE|EXEC): the pattern
\* has no closing \b, so a longer word with such a beginning matches too.
InjectionOps ==
    {"DROP", "DELETE", "UPDATE", "INSERT", "ALTER", "CREATE", "TRUNCATE", "EXEC"}

\* SQL_INJECTION_PATTERNS, searched with re.IGNORECASE in the raw text.
SQL_INJECTION_PATTERNS(s) ==
    LET u == UpperSeq(s)
        n == Len(u)
    IN  \/ \E i \in 1..n : /\ i + 1 <= n
                           /\ u[i] \in Semicolons
                           /\ \E op \in InjectionOps : HasPrefix(u[i + 1], op)
        \/ \E i \in 1..n : /\ u[i] = "UNION"
                           /\ \/ i + 1 <= n /\ u[i + 1] = "SELECT"
                              \/ i + 2 <= n /\ u[i + 1] = "ALL" /\ u[i + 2] = "SELECT"
        \/ \E i \in 1..n : /\ i + 1 <= n
                           /\ u[i] = "INTO"
                           /\ u[i + 1] \in {"OUTFILE", "DUMPFILE"}
        \/ \E i \in 1..n : i + 1 <= n /\ u[i] = "LOAD_FILE" /\ u[i + 1] = "("
        \/ \E i \in 1..n : u[i] = "XP_CMDSHELL"

GuardrailResult(name, status, message) ==
    [guardrail_name |-> name, status |-> status, message |-> message]

\* OutputGuardrails.check_sql_safety: allowed_tables comes from the
\* configuration; without an override validate_sql uses ALLOWED_TABLES.
check_sql_safety(s) ==
    LET v == validate_sql(s, ALLOWED_TABLES)
    IN  IF ~v.valid
        THEN GuardrailResult("sql_validation", "blocked",
                 "Generated SQL failed safety validation: " \o v.error)
        ELSE GuardrailResult("sql_validation", "passed",
                 "SQL passed safety validation")

check_sql_injection_patterns(s) ==
    IF SQL_INJECTION_PATTERNS(s)
    THEN GuardrailResult("sql_injection_check", "blocked",
             "Suspicious SQL pattern detected in generated query.")
    ELSE GuardrailResult("sql_injection_check", "passed",
             "No SQL injection patterns detected")

\* OutputGuardrails.check_all: both checks run when sql is not empty.
output_check_all(s) ==
    IF s = <<>> THEN <<>>
    ELSE <<check_sql_safety(s), check_sql_injection_patterns(s)>>

\* InputGuardrails.is_blocked / OutputGuardrails.is_blocked.
is_blocked(results) == \E i \in 1..Len(results) : results[i].status = "blocked"

(***************************************************************************)
(* SpecSql: validate_sql and check_sql_safety applied to every token        *)
(* sequence over OpsAlphabet of at most MaxSqlLen tokens.                   *)
(***************************************************************************)
NoVerdict == [call |-> "none", valid |-> FALSE, error |-> "", status |-> ""]

OpsAlphabet ==
    {"SELECT", "WITH", "DROP", "delete", "FROM", "customers", "'", ";", ";;"}

RECURSIVE SeqsUpTo(_, _)
SeqsUpTo(S, n) ==
    IF n = 0 THEN {<<>>}
    ELSE LET shorter == SeqsUpTo(S, n - 1)
         IN  shorter \cup {Append(u, t) : u \in {w \in shorter : Len(w) = n - 1}, t \in S}

\* A caller hands the text to validate_sql with the default allow-list.
ValidateSqlCall ==
    /\ verdict.call = "none"
    /\ LET v == validate_sql(sql, ALLOWED_TABLES)
       IN  verdict' = [call |-> "validate_sql", valid |-> v.valid,
                       error |-> v.error, status |-> ""]
    /\ UNCHANGED <<sql, flowVars, auxVars>>

\* The output guardrails hand the text to check_sql_safety.
CheckSqlSafetyCall ==
    /\ verdict.call = "none"
    /\ LET r == check_sql_safety(sql)
       IN  verdict' = [call |-> "check_sql_safety", valid |-> r.status = "passed",
                       error |-> r.message, status |-> r.status]
    /\ UNCHANGED <<sql, flowVars, auxVars>>

(***************************************************************************)
(* guardrails/input_guardrails.py, services/guardrail_service.py            *)
(*                                                                         *)
(* A user message is modelled by what the patterns find in it.              *)
(***************************************************************************)
Queries == [injection : BOOLEAN, pii : BOOLEAN,
            validity : {"ok", "too_long", "off_topic"}]

NoQuery == [injection |-> FALSE, pii |-> FALSE, validity |-> "none"]

\* A message on which check_input raises instead of returning (check_all
\* fails, e.g. on a malformed configuration entry).
RaisingQuery == [injection |-> FALSE, pii |-> FALSE, validity |-> "raises"]

\* The messages a run may be started with.
RunQueries == Queries \cup {RaisingQuery}

check_injection(q) ==
    IF q.injection
    THEN GuardrailResult("injection_detection", "blocked",
             "Potential prompt injection detected. Please rephrase your question about the business data.")
    ELSE GuardrailResult("injection_detection", "passed", "No injection detected")

check_pii(q) ==
    IF q.pii
    THEN GuardrailResult("pii_filter", "warning",
             "Personal information detected. Please avoid including sensitive data in queries.")
    ELSE GuardrailResult("pii_filter", "passed", "No PII detected")

check_query_validity(q) ==
    IF q.validity = "too_long"
    THEN GuardrailResult("query_validation", "blocked",
             "Query exceeds maximum length of 1000 characters.")
    ELSE IF q.validity = "off_topic"
    THEN GuardrailResult("query_validation", "blocked",
             "This question appears to be off-topic. I can help with e-commerce business analytics questions.")
    ELSE GuardrailResult("query_validation", "passed", "Query is valid")

\* input_config: which checks are enabled; a check without an "enabled" key
\* is enabled.
Configs == [injection_detection : BOOLEAN, pii_filter : BOOLEAN,
            query_validation : BOOLEAN]

DefaultConfig == [injection_detection |-> TRUE, pii_filter |-> TRUE,
                  query_validation |-> TRUE]

\* InputGuardrails.check_all: every enabled check runs, in this order.
check_all_first_block(cfg, q) ==
    LET a == IF cfg.injection_detection THEN <<check_injection(q)>> ELSE <<>>
        b == IF cfg.pii_filter THEN <<check_pii(q)>> ELSE <<>>
        c == IF cfg.query_validation THEN <<check_query_validity(q)>> ELSE <<>>
    IN  IF is_blocked(a) THEN a ELSE a \o b \o c

check_all_cfg(cfg, q) ==
    (IF cfg.injection_detection THEN <<check_injection(q)>> ELSE <<>>)
    \o (IF cfg.pii_filter THEN <<check_pii(q)>> ELSE <<>>)
    \o (IF cfg.query_validation THEN <<check_query_validity(q)>> ELSE <<>>)

\* InputGuardrails.check_all with the three checks enabled (the default).
check_all(q) == check_all_cfg(DefaultConfig, q)

get_last_block_reason(results) ==
    LET blocked == SelectSeq(results, LAMBDA r : r.status = "blocked")
    IN  IF blocked = <<>> THEN "" ELSE blocked[Len(blocked)].message

RECURSIVE get_block_reason(_)
get_block_reason(results) ==
    IF results = <<>> THEN ""
    ELSE IF Head(results).status = "blocked" THEN Head(results).message
    ELSE get_block_reason(Tail(results))

CountStatus(results, st) ==
    Cardinality({i \in 1..Len(results) : results[i].status = st})

\* The "Update stats" loop of check_input.
UpdateStatsNoWarnings(st, results) ==
    [total_checks |-> st.total_checks + 1,
     blocks |-> st.blocks + CountStatus(results, "blocked"),
     warnings |-> st.warnings,
     passes |-> st.passes + Len(results) - CountStatus(results, "blocked")
                 - CountStatus(results, "warning")]

UpdateStats(st, results) ==
    [total_checks |-> st.total_checks + 1,
     blocks |-> st.blocks + CountStatus(results, "blocked"),
     warnings |-> st.warnings + CountStatus(results, "warning"),
     passes |-> st.passes + Len(results) - CountStatus(results, "blocked")
                 - CountStatus(results, "warning")]

\* GuardrailService.check_input: its return value.
check_input_cfg(cfg, q) ==
    LET results == check_all_cfg(cfg, q)
        blocked == is_blocked(results)
    IN  [allowed |-> ~blocked,
         results |-> results,
         block_reason |-> IF blocked THEN get_block_reason(results) ELSE ""]

check_input(q) ==
    LET results == check_all(q)
        blocked == is_blocked(results)
    IN  [allowed |-> ~blocked,
         results |-> results,
         block_reason |-> IF blocked THEN get_block_reason(results) ELSE ""]

(***************************************************************************)
(* Messages, tool results and LLM calls                                     *)
(***************************************************************************)
Tools == {"query_database", "generate_chart", "generate_report"}

\* sql_query, visualization, report: the intents routed to the agent.
DataIntents == {"sql_query", "visualization", "report"}

\* models/pydantic_models.py: the values QueryResponse.intent accepts.
QueryIntent == DataIntents \cup {"general"}

\* What the router LLM may answer: a category name or something else.
RouterReplies == QueryIntent \cup {"greeting"}

\* The content of a tool result, as the JSON record the ToolNode stores:
\* sql ("" is <<>>), whether chart_base64 / markdown are non-empty, the rows
\* ("none": no rows, "plain": rows masking leaves alone, "sensitive": rows
\* masking changes) and the success flag.
NoData == [sql |-> <<>>, chart |-> FALSE, markdown |-> FALSE, rows |-> "none",
           success |-> FALSE]

HumanMessage == [type |-> "human", content |-> "query", tool_call |-> "",
                 data |-> NoData]

AIMessage(content) == [type |-> "ai", content |-> content, tool_call |-> "",
                       data |-> NoData]

\* An assistant reply that requests a tool call carries no text.
AIToolCall(tool) == [type |-> "ai", content |-> "", tool_call |-> tool,
                     data |-> NoData]

ToolMessage(tool, data) == [type |-> "tool", content |-> "json",
                            tool_call |-> tool, data |-> data]

\* Tokens the LLM reports for a call of each kind (response metadata).
Usage(kind) ==
    CASE kind = "router" -> 1
      [] kind = "agent" -> 2
      [] kind = "general_response" -> 1
      [] kind = "nl_to_sql" -> 3
      [] kind = "report" -> 4

\* CostTracker.track_call: the cost record of one LLM response.
track_call(kind) == [call |-> kind, total_tokens |-> Usage(kind)]

RECURSIVE SumTokens(_)
SumTokens(costs) ==
    IF costs = <<>> THEN 0
    ELSE Head(costs).total_tokens + SumTokens(Tail(costs))

\* SQL texts the NL-to-SQL LLM may produce (after extract_sql_from_response).
SqlClean == <<"SELECT", "name", "FROM", "customers">>
SqlSecret == <<"SELECT", "name", "FROM", "secret_data">>
SqlUnion == <<"SELECT", "name", "FROM", "customers", "UNION", "SELECT", "name",
              "FROM", "products">>
SqlMulti == <<"SELECT", "name", "FROM", "customers", ";", "DROP", "TABLE",
              "customers">>
SqlSamples == {SqlClean, SqlSecret, SqlUnion, SqlMulti}

(***************************************************************************)
(* services/nl_to_sql_service.py, mcp_server/*.py, tools/*.py               *)
(*                                                                         *)
(* Each operator returns the adapter's result (data) together with the LLM  *)
(* calls made (llm), the validate_sql calls made (validated) and the        *)
(* database calls made (db_calls) while it ran.                             *)
(***************************************************************************)
\* generate_sql failed: it returns sql "" with an error.
GenError == <<>>

\* What the database answers: rows, no rows, or an execution error.
DbOutcomes == {"plain", "sensitive", "none", "error"}

\* NLToSQLService.execute followed by SQLTool.execute.
sql_tool_execute(gen, db) ==
    IF gen = GenError
    THEN [sql |-> <<>>, error |-> TRUE, rows |-> "none", llm |-> <<>>,
          validated |-> 0, db_calls |-> 0]
    ELSE IF ~validate_sql(gen, ALLOWED_TABLES).valid
    THEN [sql |-> gen, error |-> TRUE, rows |-> "none",
          llm |-> <<track_call("nl_to_sql")>>, validated |-> 1, db_calls |-> 0]
    ELSE IF db = "error"
    THEN [sql |-> gen, error |-> TRUE, rows |-> "none",
          llm |-> <<track_call("nl_to_sql")>>, validated |-> 1, db_calls |-> 1]
    ELSE [sql |-> gen, error |-> FALSE, rows |-> db,
          llm |-> <<track_call("nl_to_sql")>>, validated |-> 1, db_calls |-> 1]

\* tools/sql_query_tool.py: the SQL tool's result as it is.
query_database(gen, db) ==
    LET q == sql_tool_execute(gen, db)
    IN  [data |-> [sql |-> q.sql, chart |-> FALSE, markdown |-> FALSE,
                   rows |-> q.rows, success |-> ~q.error],
         llm |-> q.llm, validated |-> q.validated, db_calls |-> q.db_calls]

\* tools/chart_tool.py: {success: False, error} when the query failed, else
\* the chart result with sql and row_count attached (it carries no rows).
generate_chart(gen, db, viz_ok) ==
    LET q == sql_tool_execute(gen, db)
        drawn == viz_ok /\ q.rows # "none"
    IN  IF q.error
        THEN [data |-> NoData, llm |-> q.llm, validated |-> q.validated,
              db_calls |-> q.db_calls]
        ELSE [data |-> [sql |-> q.sql, chart |-> drawn, markdown |-> FALSE,
                        rows |-> "none", success |-> drawn],
              llm |-> q.llm, validated |-> q.validated, db_calls |-> q.db_calls]

\* tools/report_tool.py: {success: False, error} when the query failed, else
\* the report result with sql and row_count attached.
generate_report(gen, db, llm_ok) ==
    LET q == sql_tool_execute(gen, db)
    IN  IF q.error
        THEN [data |-> NoData, llm |-> q.llm, validated |-> q.validated,
              db_calls |-> q.db_calls]
        ELSE [data |-> [sql |-> q.sql, chart |-> FALSE, markdown |-> llm_ok,
                        rows |-> "none", success |-> llm_ok],
              llm |-> IF llm_ok THEN q.llm \o <<track_call("report")>> ELSE q.llm,
              validated |-> q.validated, db_calls |-> q.db_calls]

\* The ToolNode runs the adapter the agent asked for.
RunTool(tool, gen, db, ok) ==
    CASE tool = "query_database" -> query_database(gen, db)
      [] tool = "generate_chart" -> generate_chart(gen, db, ok)
      [] tool = "generate_report" -> generate_report(gen, db, ok)

ToolOutcomes(tool) ==
    {RunTool(tool, gen, db, ok) :
        gen \in SqlSamples \cup {GenError}, db \in DbOutcomes, ok \in BOOLEAN}

\* The outcome of a tool round beyond MaxVariedRounds.
PlainOutcome == query_database(SqlClean, "plain")

(***************************************************************************)
(* agent/agent_workflow.py: the graph                                       *)
(***************************************************************************)
Nodes == {"guardrail_check", "router", "agent", "tools", "output_guard",
          "general_response"}

\* build_graph, line 100: the attribute set on the compiled graph.
recursion_limit == 15

\* The step ceiling of a run whose config names none (the library default).
DEFAULT_RECURSION_LIMIT == 25

\* invoke, line 361: graph.invoke(initial_state) passes no config, and the
\* run reads its ceiling from the config, not from the attribute.
RunLimit == DEFAULT_RECURSION_LIMIT

\* graph.add_edge(START, "guardrail_check"): the entry node of a run.
EntryNodeRouterFirst == "router"

EntryNode == "guardrail_check"

\* _check_guardrail_result
CheckGuardrailResultLastOnly(results) ==
    IF results # <<>> /\ results[Len(results)].status = "blocked"
    THEN "END" ELSE "router"

CheckGuardrailResult(results) ==
    IF \E i \in 1..Len(results) : results[i].status = "blocked"
    THEN "END" ELSE "router"

\* _route_by_intent
RouteByIntentNotGeneral(i) ==
    IF i # "general" THEN "agent" ELSE "general_response"

RouteByIntent(i) ==
    IF i \in {"sql_query", "visualization", "report"}
    THEN "agent" ELSE "general_response"

\* _check_output_guardrail: only the most recent result is looked at.
CheckOutputGuardrail(results) ==
    IF results # <<>> /\ results[Len(results)].status = "blocked"
    THEN "END" ELSE "agent"

\* tools_condition: a reply with a tool call goes to the tools node.
ToolsCondition(msgs) ==
    IF msgs[Len(msgs)].type = "ai" /\ msgs[Len(msgs)].tool_call # ""
    THEN "tools" ELSE "END"

NoResult == [raised |-> FALSE, returned |-> FALSE, response |-> "",
             intent |-> "", guardrail_results |-> <<>>, cost |-> <<>>,
             messages |-> <<>>, chart_result |-> 0, report_result |-> 0]

\* The exception left invoke.
Raised == [NoResult EXCEPT !.raised = TRUE]

\* The except branch of invoke.
ErrorResult == [NoResult EXCEPT !.returned = TRUE,
                                !.response = "I encountered an error: ...",
                                !.intent = "error"]

NoResponse == [status |-> 0, response |-> "", intent |-> "",
               guardrail_checks |-> <<>>, total_tokens |-> 0,
               tools_used |-> <<>>, chart |-> 0, report |-> 0]

NoStats == [total_checks |-> 0, blocks |-> 0, warnings |-> 0, passes |-> 0]

\* One node has run: the superstep is counted and the node recorded.
Stepped(node) ==
    /\ steps' = steps + 1
    /\ trace' = Append(trace, node)

\* A node runs only below the step ceiling.
CanRun(node) == pc = node /\ steps < RunLimit

OnGuardrailErrorBlocked ==
    <<GuardrailResult("guardrail_error", "blocked", "Error in guardrail node")>>

\* The except branch of guardrail_node: return {"guardrail_results": []}
OnGuardrailError == <<>>

\* guardrail_node, then the conditional edge _check_guardrail_result. When
\* check_input raises, it does so in check_all, before the stats update.
GuardrailNode ==
    /\ CanRun("guardrail_check")
    /\ IF query = RaisingQuery
       THEN /\ stats' = stats
            /\ guardrail_results' = OnGuardrailError
            /\ messages' = messages
            /\ pc' = CheckGuardrailResult(guardrail_results')
       ELSE LET r == check_input(query)
            IN  /\ stats' = UpdateStats(stats, r.results)
                /\ guardrail_results' = r.results
                /\ messages' =
                     IF ~r.allowed
                     THEN Append(messages,
                             AIMessage("I can't process that request. " \o r.block_reason))
                     ELSE messages
                /\ pc' = CheckGuardrailResult(r.results)
    /\ Stepped("guardrail_check")
    /\ UNCHANGED <<sqlVars, auxVars, graph, caller, query, intent, cost_info, tools_used,
                   rounds, llm_calls, tool_calls, validations, db_calls, result,
                   http, cost_rows>>

\* router_node: the LLM's reply becomes the intent; on an error the intent is
\* "general" and no cost is recorded.
RouterNode ==
    /\ CanRun("router")
    /\ \/ \E reply \in RouterReplies :
            /\ intent' = reply
            /\ cost_info' = <<track_call("router")>>
            /\ llm_calls' = Append(llm_calls, track_call("router"))
       \/ /\ intent' = "general"
          /\ cost_info' = <<>>
          /\ UNCHANGED llm_calls
    /\ pc' = RouteByIntent(intent')
    /\ Stepped("router")
    /\ UNCHANGED <<sqlVars, auxVars, graph, caller, stats, query, messages,
                   guardrail_results, tools_used, rounds, tool_calls,
                   validations, db_calls, result, http, cost_rows>>

\* general_response_node, then the edge to END.
GeneralResponseNode ==
    /\ CanRun("general_response")
    /\ \/ /\ messages' = Append(messages, AIMessage("general answer"))
          /\ cost_info' = Append(cost_info, track_call("general_response"))
          /\ llm_calls' = Append(llm_calls, track_call("general_response"))
       \/ /\ messages' = Append(messages,
                AIMessage("Hello! I'm the Enterprise AI Assistant. ..."))
          /\ UNCHANGED <<cost_info, llm_calls>>
    /\ pc' = "END"
    /\ Stepped("general_response")
    /\ UNCHANGED <<sqlVars, auxVars, graph, caller, stats, query, intent,
                   guardrail_results, tools_used, rounds, tool_calls,
                   validations, db_calls, result, http, cost_rows>>

\* The tools the agent LLM asks for: any tool in the first MaxVariedRounds
\* rounds, query_database afterwards.
Requestable == IF rounds < MaxVariedRounds THEN Tools ELSE {"query_database"}

\* agent_node, then the conditional edge tools_condition: the LLM requests a
\* tool call or gives its final answer; on an error the node reports it.
AgentNode ==
    /\ CanRun("agent")
    /\ \/ \E tool \in Requestable :
            /\ messages' = Append(messages, AIToolCall(tool))
            /\ cost_info' = Append(cost_info, track_call("agent"))
            /\ llm_calls' = Append(llm_calls, track_call("agent"))
       \/ /\ messages' = Append(messages, AIMessage("final answer"))
          /\ cost_info' = Append(cost_info, track_call("agent"))
          /\ llm_calls' = Append(llm_calls, track_call("agent"))
       \/ /\ messages' = Append(messages,
                AIMessage("I encountered an error processing your request: ..."))
          /\ UNCHANGED <<cost_info, llm_calls>>
    /\ pc' = ToolsCondition(messages')
    /\ Stepped("agent")
    /\ UNCHANGED <<sqlVars, auxVars, graph, caller, stats, query, intent,
                   guardrail_results, tools_used, rounds, tool_calls,
                   validations, db_calls, result, http, cost_rows>>

\* ToolNode(self.tools): runs the requested adapter and appends its result as
\* a tool message; then the edge to output_guard. Nothing writes tools_used.
ToolsNode ==
    /\ CanRun("tools")
    /\ LET tool == messages[Len(messages)].tool_call
       IN  \E o \in (IF rounds < MaxVariedRounds THEN ToolOutcomes(tool)
                     ELSE {PlainOutcome}) :
              /\ messages' = Append(messages, ToolMessage(tool, o.data))
              /\ llm_calls' = llm_calls \o o.llm
              /\ validations' = validations + o.validated
              /\ db_calls' = db_calls + o.db_calls
              /\ tool_calls' = tool_calls \cup {tool}
    /\ rounds' = rounds + 1
    /\ pc' = "output_guard"
    /\ Stepped("tools")
    /\ UNCHANGED <<sqlVars, auxVars, graph, caller, stats, query, intent,
                   guardrail_results, cost_info, tools_used, result, http,
                   cost_rows>>

\* GuardrailService.check_output on one tool result.
check_output(data) ==
    LET results == output_check_all(data.sql)
    IN  [allowed |-> ~is_blocked(results),
         results |-> results,
         masked |-> data.rows = "sensitive"]

\* The loop of output_guardrail_node over reversed(messages), from message i
\* down: it returns at the first SQL-bearing content that is blocked or whose
\* masked rows differ, and goes on to older messages otherwise.
RECURSIVE OutputScan(_, _)
OutputScan(msgs, i) ==
    IF i = 0 THEN [outcome |-> "none", results |-> <<>>, checked |-> 0]
    ELSE IF msgs[i].type = "tool" /\ msgs[i].data.sql # <<>>
    THEN LET r == check_output(msgs[i].data)
             older == OutputScan(msgs, i - 1)
         IN  IF ~r.allowed
             THEN [outcome |-> "blocked", results |-> r.results, checked |-> 1]
             ELSE IF r.masked
             THEN [outcome |-> "masked", results |-> r.results, checked |-> 1]
             ELSE [older EXCEPT !.checked = @ + 1]
    ELSE OutputScan(msgs, i - 1)

OutputGuardResultsOnlyNew(old, scan) == scan.results

\* The guardrail_results the node returns: state.get("guardrail_results", [])
\* + result["results"] on a block or a masking difference, the list as it
\* was otherwise.
OutputGuardResults(old, scan) ==
    IF scan.outcome = "none" THEN old ELSE old \o scan.results

\* output_guardrail_node, then the conditional edge _check_output_guardrail.
OutputGuardNode ==
    /\ CanRun("output_guard")
    /\ LET scan == OutputScan(messages, Len(messages))
       IN  /\ guardrail_results' = OutputGuardResults(guardrail_results, scan)
           /\ messages' =
                IF scan.outcome = "blocked"
                THEN Append(messages, AIMessage(
                        "The generated query was blocked by safety checks. Please rephrase your question."))
                ELSE messages
           /\ validations' = validations + scan.checked
    /\ pc' = CheckOutputGuardrail(guardrail_results')
    /\ Stepped("output_guard")
    /\ UNCHANGED <<sqlVars, auxVars, graph, caller, stats, query, intent, cost_info,
                   tools_used, rounds, llm_calls, tool_calls, db_calls, result,
                   http, cost_rows>>

(***************************************************************************)
(* agent/agent_workflow.py: invoke                                          *)
(***************************************************************************)
\* The initial_state of invoke.
StartRun(q) ==
    /\ query' = q
    /\ messages' = <<HumanMessage>>
    /\ intent' = ""
    /\ guardrail_results' = <<>>
    /\ tools_used' = <<>>
    /\ cost_info' = <<>>
    /\ pc' = EntryNode

\* The largest index of msgs in the set idx, 0 when it is empty.
LastOf(idx) == IF idx = {} THEN 0 ELSE CHOOSE i \in idx : \A j \in idx : j <= i

\* The most recent assistant message with text and without tool calls.
FinalResponse(msgs) ==
    LET i == LastOf({k \in 1..Len(msgs) : /\ msgs[k].type = "ai"
                                          /\ msgs[k].content # ""
                                          /\ msgs[k].tool_call = ""})
    IN  IF i = 0 THEN "" ELSE msgs[i].content

\* The most recent tool message whose chart_base64 is not empty (its index).
LastChart(msgs) ==
    LastOf({k \in 1..Len(msgs) : msgs[k].type = "tool" /\ msgs[k].data.chart})

\* The most recent tool message whose markdown is not empty (its index).
LastReport(msgs) ==
    LastOf({k \in 1..Len(msgs) : msgs[k].type = "tool" /\ msgs[k].data.markdown})

\* invoke called on a workflow whose graph is not built yet: build_graph runs
\* outside the try block, so its exception leaves invoke.
InvokeDirect ==
    /\ pc = "init"
    /\ graph = "none"
    /\ caller' = "direct"
    /\ \/ /\ graph' = "built"
          /\ \E q \in RunQueries : StartRun(q)
          /\ UNCHANGED result
       \/ /\ result' = Raised
          /\ pc' = "returned"
          /\ UNCHANGED <<graph, query, messages, intent, guardrail_results,
                         tools_used, cost_info>>
    /\ UNCHANGED <<sqlVars, auxVars, stats, steps, trace, rounds, llm_calls, tool_calls,
                   validations, db_calls, http, cost_rows>>

\* The run needs another superstep at the ceiling: GraphRecursionError, which
\* the except branch of invoke turns into the error-shaped result.
GraphRecursionError ==
    /\ pc \in Nodes
    /\ steps >= RunLimit
    /\ result' = ErrorResult
    /\ pc' = "returned"
    /\ UNCHANGED <<sqlVars, auxVars, graph, caller, stats, query, messages, intent,
                   guardrail_results, cost_info, tools_used, steps, trace,
                   rounds, llm_calls, tool_calls, validations, db_calls, http,
                   cost_rows>>

\* invoke after graph.invoke returned: final extraction and cost totals.
InvokeReturn ==
    /\ pc = "END"
    /\ result' = [raised |-> FALSE, returned |-> TRUE,
                  response |-> FinalResponse(messages),
                  intent |-> intent,
                  guardrail_results |-> guardrail_results,
                  cost |-> <<SumTokens(cost_info)>>,
                  messages |-> messages,
                  chart_result |-> LastChart(messages),
                  report_result |-> LastReport(messages)]
    /\ pc' = "returned"
    /\ UNCHANGED <<sqlVars, auxVars, graph, caller, stats, query, messages, intent,
                   guardrail_results, cost_info, tools_used, steps, trace,
                   rounds, llm_calls, tool_calls, validations, db_calls, http,
                   cost_rows>>

(***************************************************************************)
(* main.py                                                                 *)
(***************************************************************************)
\* lifespan: the services are constructed and the graph is built; when
\* build_graph fails the application does not start.
Lifespan ==
    /\ pc = "init"
    /\ \/ graph' = "built" /\ pc' = "ready"
       \/ graph' = "none" /\ pc' = "down"
    /\ UNCHANGED <<sqlVars, auxVars, caller, stats, query, messages, intent,
                   guardrail_results, cost_info, tools_used, steps, trace,
                   rounds, llm_calls, tool_calls, validations, db_calls, result,
                   http, cost_rows>>

\* POST /query: the handler hands workflow.invoke to the thread pool.
Query ==
    /\ pc = "ready"
    /\ caller' = "http"
    /\ \E q \in RunQueries : StartRun(q)
    /\ UNCHANGED <<sqlVars, auxVars, graph, stats, steps, trace, rounds, llm_calls,
                   tool_calls, validations, db_calls, result, http, cost_rows>>

\* The names of the guardrail results that did not pass (guardrail_flags).
Flags(results) ==
    [i \in 1..Len(results) |-> results[i].guardrail_name]

\* The value cost_data.get("total_tokens", 0) of invoke's cost.
CostTotal(cost) == IF cost = <<>> THEN 0 ELSE cost[1]

\* QueryResponse(...): pydantic accepts the intent only if it is a QueryIntent.
QueryResponseValid(r) == r.intent \in QueryIntent

record_cost_skipped(rows, row) == rows

\* DatabaseManager.record_cost: one INSERT into cost_tracking.
record_cost(rows, row) == Append(rows, row)

\* The handler is still inside "await asyncio.wait_for(...)": it has sent
\* nothing yet. After the timeout nobody awaits the worker's future.
HandlerWaiting(h) == h.status = 0

\* asyncio.wait_for(..., timeout=90) expires while invoke is running on its
\* worker: the handler answers 504; the invocation is not cancelled and
\* runs on to its return.
QueryTimeout ==
    /\ caller = "http"
    /\ pc \in Nodes \cup {"END"}
    /\ HandlerWaiting(http)
    /\ http' = [NoResponse EXCEPT !.status = 504]
    /\ UNCHANGED <<sqlVars, auxVars, graph, caller, stats, pc, query, messages,
                   intent, guardrail_results, cost_info, tools_used, steps,
                   trace, rounds, llm_calls, tool_calls, validations, db_calls,
                   result, cost_rows>>

\* The handler after invoke returned: cost info, guardrail checks,
\* record_cost, chart and report extraction, then the QueryResponse; any
\* exception on the way is answered with HTTP 500.
QueryRespond ==
    /\ pc = "returned"
    /\ caller = "http"
    /\ HandlerWaiting(http)
    /\ IF result.raised
       THEN /\ http' = [NoResponse EXCEPT !.status = 500]
            /\ UNCHANGED cost_rows
       ELSE LET chart == IF result.chart_result # 0 THEN result.chart_result
                         ELSE LastChart(result.messages)
                report == IF result.report_result # 0 THEN result.report_result
                          ELSE LastReport(result.messages)
                \* result has no "tools_used" key: .get gives []
                response == [status |-> 200,
                             response |-> result.response,
                             intent |-> result.intent,
                             guardrail_checks |-> result.guardrail_results,
                             total_tokens |-> CostTotal(result.cost),
                             tools_used |-> <<>>,
                             chart |-> chart,
                             report |-> report]
            IN  /\ cost_rows' = record_cost(cost_rows,
                        [total_tokens |-> CostTotal(result.cost),
                         tools_used |-> <<>>,
                         guardrail_flags |-> Flags(SelectSeq(result.guardrail_results,
                                                LAMBDA g : g.status # "passed")),
                         success |-> TRUE])
                /\ http' = IF QueryResponseValid(response) THEN response
                           ELSE [NoResponse EXCEPT !.status = 500]
    /\ pc' = "done"
    /\ UNCHANGED <<sqlVars, auxVars, graph, caller, stats, query, messages, intent,
                   guardrail_results, cost_info, tools_used, steps, trace,
                   rounds, llm_calls, tool_calls, validations, db_calls, result>>

(***************************************************************************)
(* services/nl_to_sql_service.py: NLToSQLService.execute, step by step      *)
(***************************************************************************)
\* The result of execute: error is "" or the step that failed; fields says
\* whether the result has the keys columns, rows and row_count.
NoExecResult == [returned |-> FALSE, sql |-> <<>>, error |-> "",
                 fields |-> FALSE, rows |-> "none"]

NoExec == [pc |-> "idle", sql |-> <<>>, calls |-> <<>>, result |-> NoExecResult]

\* The SQL texts extract_sql_from_response may hand back.
ExecTexts == SqlSamples \cup SeqsUpTo(OpsAlphabet, MaxGenLen)

\* One call made by execute: its name, the SQL it was given, its success.
ExecCall(op, text, ok) == [op |-> op, sql |-> text, ok |-> ok]

\* execute, lines 69-80: after validate_sql the query runs only if is_valid.
AfterValidationAlways(is_valid) == "query"

AfterValidation(is_valid) == IF is_valid THEN "query" ELSE "returned"

\* gen_result = self.generate_sql(question): on an error the result is
\* returned as it is, {"sql": "", "error": ..., "cost": {}}.
ExecGenerateSql ==
    /\ exec.pc = "idle"
    /\ \/ \E text \in ExecTexts :
            exec' = [exec EXCEPT !.pc = "validate",
                                 !.sql = text,
                                 !.calls = Append(@, ExecCall("generate_sql", text, TRUE))]
       \/ exec' = [exec EXCEPT !.pc = "returned",
                               !.calls = Append(@, ExecCall("generate_sql", GenError, FALSE)),
                               !.result = [returned |-> TRUE, sql |-> GenError,
                                           error |-> "generation",
                                           fields |-> FALSE, rows |-> "none"]]
    /\ UNCHANGED <<sqlVars, flowVars, guard, mask, pool, seed, lateVars>>

\* is_valid, error_msg = validate_sql(sql): a failure returns the error result
\* with empty columns and rows.
ExecValidate ==
    /\ exec.pc = "validate"
    /\ LET v == validate_sql(exec.sql, ALLOWED_TABLES)
       IN  exec' = [exec EXCEPT
                !.pc = AfterValidation(v.valid),
                !.calls = Append(@, ExecCall("validate_sql", exec.sql, v.valid)),
                !.result = IF v.valid THEN @
                           ELSE [returned |-> TRUE, sql |-> exec.sql,
                                 error |-> "validation",
                                 fields |-> TRUE, rows |-> "none"]]
    /\ UNCHANGED <<sqlVars, flowVars, guard, mask, pool, seed, lateVars>>

\* result = self.db.execute_query(sql, max_rows): the rows, or the error
\* result when the database reports an error.
ExecQuery ==
    /\ exec.pc = "query"
    /\ \E db \in DbOutcomes :
          exec' = [exec EXCEPT
                !.pc = "returned",
                !.calls = Append(@, ExecCall("execute_query", exec.sql, db # "error")),
                !.result = [returned |-> TRUE, sql |-> exec.sql,
                            error |-> IF db = "error" THEN "execution" ELSE "",
                            fields |-> TRUE,
                            rows |-> IF db = "error" THEN "none" ELSE db]]
    /\ UNCHANGED <<sqlVars, flowVars, guard, mask, pool, seed, lateVars>>

(***************************************************************************)
(* services/guardrail_service.py: check_input calls one after another, and  *)
(* get_stats                                                               *)
(***************************************************************************)
\* calls: check_input calls made; n_results: results they returned in all;
\* q, last: the input and the return value of the latest call; ref: what the
\* dictionary get_stats returned is ("copy": a dictionary of its own,
\* "stats": self._stats itself); copy: the content of that copy.
NoGuard == [config |-> DefaultConfig, calls |-> 0, n_results |-> 0,
            q |-> NoQuery,
            last |-> [allowed |-> TRUE, results |-> <<>>, block_reason |-> ""],
            ref |-> "none", copy |-> NoStats]

\* A caller calls check_input on an input text.
CheckInputCall ==
    /\ guard.calls < MaxChecks
    /\ \E q \in Queries :
          LET r == check_input_cfg(guard.config, q)
          IN  /\ stats' = UpdateStats(stats, r.results)
              /\ guard' = [guard EXCEPT !.calls = @ + 1,
                                        !.n_results = @ + Len(r.results),
                                        !.q = q,
                                        !.last = r]
    /\ UNCHANGED <<sqlVars, flowRest, exec, mask, pool, seed, lateVars>>

\* get_stats: return dict(self._stats), a new dictionary.
GetStatsReturns == "copy"

GetStats ==
    /\ guard.calls > 0
    /\ guard' = [guard EXCEPT !.ref = GetStatsReturns, !.copy = stats]
    /\ UNCHANGED <<sqlVars, flowVars, exec, mask, pool, seed, lateVars>>

\* The caller changes the dictionary get_stats returned.
Changed(st) == [st EXCEPT !.total_checks = @ + 1, !.blocks = 0]

ModifyReturned ==
    /\ guard.ref # "none"
    /\ guard.copy = stats
    /\ IF guard.ref = "copy"
       THEN /\ guard' = [guard EXCEPT !.copy = Changed(@)]
            /\ UNCHANGED stats
       ELSE /\ stats' = Changed(stats)
            /\ UNCHANGED guard
    /\ UNCHANGED <<sqlVars, flowRest, exec, mask, pool, seed, lateVars>>

(***************************************************************************)
(* guardrails/output_guardrails.py: mask_sensitive_data                     *)
(*                                                                         *)
(* A value is None, a string or an integer; chars is the text str(value)    *)
(* gives, one character per element.                                        *)
(***************************************************************************)
None == [type |-> "none", chars |-> <<>>]

StrValue(chars) == [type |-> "str", chars |-> chars]

IntValue(chars) == [type |-> "int", chars |-> chars]

\* The values a result row may hold in its email column.
MaskValues ==
    {None, StrValue(<<>>), StrValue(<<"a">>), StrValue(<<"a", "b">>), StrValue(<<"a", "b", "c">>),
     StrValue(<<"a", "b", "c", "d">>), StrValue(<<"b", "a", "c", "a", "d">>),
     IntValue(<<"0">>), IntValue(<<"7">>), IntValue(<<"1", "2", "3", "4">>)}

MaskRows ==
    {[email |-> v, city |-> StrValue(<<"N", "Y", "C">>)] : v \in MaskValues}

\* output_config.data_masking: enabled, sensitive_columns, visible_chars,
\* masking_char.
MaskConfigs ==
    [enabled : BOOLEAN,
     sensitive_columns : {{}, {"email"}, {"email", "ssn"}},
     visible_chars : {0, 2, 3},
     masking_char : {"*"}]

\* bool(value): None, "" and 0 are false.
Truthy(v) ==
    /\ v.type # "none"
    /\ v.chars # <<>>
    /\ ~(v.type = "int" /\ v.chars = <<"0">>)

\* value[:visible_chars] + masking_char * (len(value) - visible_chars), or
\* masking_char * len(value) when the value is not longer than visible_chars.
MaskValue(cfg, v) ==
    LET value == v.chars
        n == Len(value)
    IN  IF n > cfg.visible_chars
        THEN StrValue([i \in 1..n |-> IF i <= cfg.visible_chars THEN value[i]
                                 ELSE cfg.masking_char])
        ELSE StrValue([i \in 1..n |-> cfg.masking_char])

\* The loop body: masked_row for one row.
MaskRow(cfg, cols_to_mask, row) ==
    [col \in DOMAIN row |->
        IF col \in cols_to_mask /\ Truthy(row[col])
        THEN MaskValue(cfg, row[col])
        ELSE row[col]]

mask_sensitive_data(cfg, rows, columns) ==
    LET cols_to_mask == cfg.sensitive_columns \cap columns
    IN  IF rows = <<>> \/ ~cfg.enabled THEN rows
        ELSE IF cols_to_mask = {} THEN rows
        ELSE [i \in 1..Len(rows) |-> MaskRow(cfg, cols_to_mask, rows[i])]

\* masked_row = dict(row): the loop writes into a copy of the row.
MaskedRowIs == "copy"

NoMask == [config |-> [enabled |-> TRUE, sensitive_columns |-> {},
                       visible_chars |-> 3, masking_char |-> "*"],
           given |-> <<>>, rows |-> <<>>, columns |-> {},
           called |-> FALSE, masked |-> <<>>]

\* given: the rows as the caller built them; rows: the caller's list after
\* the call; masked: the return value.
MaskCall ==
    /\ ~mask.called
    /\ LET out == mask_sensitive_data(mask.config, mask.rows, mask.columns)
       IN  mask' = [mask EXCEPT !.called = TRUE,
                                !.masked = out,
                                !.rows = IF MaskedRowIs = "copy" THEN @ ELSE out]
    /\ UNCHANGED <<sqlVars, flowVars, exec, guard, pool, seed, lateVars>>

(***************************************************************************)
(* main.py: the /query handler and its thread pool                          *)
(*                                                                         *)
(* A request is [work, response]. work is the state of the pool's work      *)
(* item that runs workflow.invoke: "queued", "running", "returned" or       *)
(* "cancelled". response is what the handler has sent: "none", "200",       *)
(* "500" or "504".                                                          *)
(***************************************************************************)
max_workers == 4

NoPool == [requests |-> <<>>]

Running(requests) ==
    Cardinality({i \in 1..Len(requests) : requests[i].work = "running"})

WorkerFreeAlways(requests) == TRUE

\* ThreadPoolExecutor(max_workers=4): a work item starts only on one of the
\* pool's threads, each of which runs one item at a time.
WorkerFree(requests) == Running(requests) < max_workers

\* The work queue is first in, first out.
NextQueued(requests) ==
    {i \in 1..Len(requests) :
        /\ requests[i].work = "queued"
        /\ \A j \in 1..(i - 1) : requests[j].work # "queued"}

AfterTimeoutCancelled(work) == "cancelled"

\* wait_for cancels the awaited future when the timeout expires: a work item
\* still in the queue is cancelled and never runs, a running one cannot be
\* cancelled and its thread goes on.
AfterTimeout(work) == IF work = "queued" THEN "cancelled" ELSE work

\* The handler awaits run_in_executor(thread_pool, workflow.invoke ...).
PoolSubmit ==
    /\ Len(pool.requests) < MaxRequests
    /\ pool' = [pool EXCEPT !.requests =
                    Append(@, [work |-> "queued", response |-> "none"])]
    /\ UNCHANGED <<sqlVars, flowVars, exec, guard, mask, seed, lateVars>>

\* A pool thread takes the next work item and calls workflow.invoke.
PoolStart ==
    /\ WorkerFree(pool.requests)
    /\ \E i \in NextQueued(pool.requests) :
          pool' = [pool EXCEPT !.requests[i].work = "running"]
    /\ UNCHANGED <<sqlVars, flowVars, exec, guard, mask, seed, lateVars>>

\* workflow.invoke returns or raises on its thread. The handler builds the
\* 200 response (or the 500 of "except Exception") only if it is still
\* waiting; after a timeout nobody reads the future's result.
PoolReturn ==
    /\ \E i \in 1..Len(pool.requests), outcome \in {"200", "500"} :
          /\ pool.requests[i].work = "running"
          /\ pool' = [pool EXCEPT !.requests[i].work = "returned",
                                  !.requests[i].response =
                                      IF @ = "none" THEN outcome ELSE @]
    /\ UNCHANGED <<sqlVars, flowVars, exec, guard, mask, seed, lateVars>>

\* asyncio.wait_for(..., timeout=90) expires: the handler raises
\* HTTPException(504).
PoolTimeout ==
    /\ \E i \in 1..Len(pool.requests) :
          /\ pool.requests[i].response = "none"
          /\ pool.requests[i].work \in {"queued", "running"}
          /\ pool' = [pool EXCEPT !.requests[i].response = "504",
                                  !.requests[i].work = AfterTimeout(@)]
    /\ UNCHANGED <<sqlVars, flowVars, exec, guard, mask, seed, lateVars>>

(***************************************************************************)
(* database/seed_data.py: seed_database                                     *)
(*                                                                         *)
(* The generator of the random module is a deterministic function of its   *)
(* state; RandomNext stands for one step of it. A customer row is          *)
(* [email, days_ago, created_at]; the other tables are filled the same way *)
(* (draws from the generator, dates counted back from datetime.now()).     *)
(***************************************************************************)
RANDOM_SEED == 42

RandomNext(state) == (state * 13 + 7) % 64

FIRST_NAMES == <<"james", "mary">>

\* The unique-email loop: the base address, then base1, base2, ... until one
\* is not in used_emails. Suffix 0 is the bare base address.
RECURSIVE UniqueEmail(_, _, _)
UniqueEmail(base, suffix, used_emails) ==
    IF [base |-> base, suffix |-> suffix] \in used_emails
    THEN UniqueEmail(base, suffix + 1, used_emails)
    ELSE [base |-> base, suffix |-> suffix]

\* datetime.now(), read once per row.
Now(now) == now

\* The customers loop, rows still to be produced counted down.
RECURSIVE Customers(_, _, _, _)
Customers(n, state, now, customers) ==
    IF n = 0 THEN customers
    ELSE LET s1 == RandomNext(state)
             first == FIRST_NAMES[((s1 \div 8) % Len(FIRST_NAMES)) + 1]
             used_emails == {customers[i].email : i \in 1..Len(customers)}
             email == UniqueEmail(first, 0, used_emails)
             s2 == RandomNext(s1)
             days_ago == (s2 % MaxDaysAgo) + 1
             created_at == Now(now) - days_ago
         IN  Customers(n - 1, s2, now,
                       Append(customers, [email |-> email,
                                          days_ago |-> days_ago,
                                          created_at |-> created_at]))

\* random.seed(42), then the rows.
seed_database(now) == Customers(MaxSeedRows, RANDOM_SEED, now, <<>>)

NoSeed == [clock |-> 0, runs |-> <<>>]

\* Wall-clock time passes.
SeedTick ==
    /\ seed.clock < MaxClock
    /\ seed' = [seed EXCEPT !.clock = @ + 1]
    /\ UNCHANGED <<sqlVars, flowVars, exec, guard, mask, pool, lateVars>>

\* One run of seed_database against an empty target.
SeedRun ==
    /\ Len(seed.runs) < MaxSeedRuns
    /\ seed' = [seed EXCEPT !.runs =
                    Append(@, [at |-> seed.clock,
                               customers |-> seed_database(seed.clock)])]
    /\ UNCHANGED <<sqlVars, flowVars, exec, guard, mask, pool, lateVars>>


(***************************************************************************)
(* tools/*.py and mcp_server/server.py: the tool functions, call by call    *)
(*                                                                         *)
(* A backend global is <<file, name>>; adapter.built holds the globals that *)
(* are no longer None. A call leaves the log of what it did to its          *)
(* backends and its outcome: raised, or returned a result with the given    *)
(* success flag, error key and sql / row_count keys.                        *)
(***************************************************************************)
CHART_MAX_ROWS == 50

REPORT_MAX_ROWS == 100

DEFAULT_MAX_ROWS == 100

Files == {"sql_query_tool", "chart_tool", "report_tool", "server"}

NoOutcome == [raised |-> FALSE, returned |-> FALSE, success |-> FALSE,
              error |-> FALSE, sql |-> FALSE]

NoAdapter == [built |-> {}, calls |-> 0, file |-> "", tool |-> "",
              log |-> <<>>, sql_error |-> FALSE, outcome |-> NoOutcome]

\* What may go wrong during one call: constructing the SQL backend, the
\* query itself (an error result), constructing the second backend, and the
\* second backend's work (a result with success False).
Faults == [sql_built : BOOLEAN, sql_error : BOOLEAN, second_built : BOOLEAN,
           second_ok : BOOLEAN]

Construct(backend, ok) == [op |-> "construct", backend |-> backend,
                           max_rows |-> 0, ok |-> ok]

Execute(backend, max_rows, ok) == [op |-> "execute", backend |-> backend,
                                   max_rows |-> max_rows, ok |-> ok]

\* A lazy getter: the global is constructed when it is None; a constructor
\* that raises leaves it None.
Get(built, g, backend, ok) ==
    IF g \in built THEN [built |-> built, log |-> <<>>, raised |-> FALSE]
    ELSE IF ok THEN [built |-> built \cup {g},
                     log |-> <<Construct(backend, TRUE)>>, raised |-> FALSE]
    ELSE [built |-> built, log |-> <<Construct(backend, FALSE)>>,
          raised |-> TRUE]

Returned(success, error, with_sql) ==
    [raised |-> FALSE, returned |-> TRUE, success |-> success, error |-> error,
     sql |-> with_sql]

\* The exception leaves the function.
Propagates == [NoOutcome EXCEPT !.raised = TRUE]

\* except Exception as e: return {"success": False, "error": str(e)}
Caught == Returned(FALSE, TRUE, FALSE)

\* query_database of sql_query_tool.py and of server.py: the getter, then
\* SQLTool.execute, whose result (with its sql key) is returned as it is.
\* Neither function has a try block.
QueryDatabaseCall(file, global, built, f) ==
    LET g == Get(built, <<file, global>>, "sql", f.sql_built)
    IN  IF g.raised
        THEN [built |-> g.built, log |-> g.log, outcome |-> Propagates]
        ELSE [built |-> g.built,
              log |-> g.log \o <<Execute("sql", DEFAULT_MAX_ROWS, ~f.sql_error)>>,
              outcome |-> Returned(~f.sql_error, f.sql_error, TRUE)]

SecondStepAlways(sql_error) == TRUE

\* if query_result.get("error"): return {"success": False, "error": ...}
SecondStep(sql_error) == ~sql_error

\* generate_chart / generate_report: the SQL tool at max_rows, the early
\* return on an error, then the second backend, whose result gets the sql
\* and row_count of the query result. OnRaise is what an exception becomes:
\* Caught in the adapters (try / except), Propagates in server.py.
TwoStepCall(file, second, max_rows, OnRaise, built, f) ==
    LET g1 == Get(built, <<file, "_sql_tool">>, "sql", f.sql_built)
        e1 == g1.log \o <<Execute("sql", max_rows, ~f.sql_error)>>
        g2 == Get(g1.built, <<file, "_" \o second \o "_tool">>, second,
                  f.second_built)
    IN  IF g1.raised
        THEN [built |-> g1.built, log |-> g1.log, outcome |-> OnRaise]
        ELSE IF ~SecondStep(f.sql_error)
        THEN [built |-> g1.built, log |-> e1,
              outcome |-> Returned(FALSE, TRUE, FALSE)]
        ELSE IF g2.raised
        THEN [built |-> g2.built, log |-> e1 \o g2.log, outcome |-> OnRaise]
        ELSE [built |-> g2.built,
              log |-> e1 \o g2.log \o <<Execute(second, 0, f.second_ok)>>,
              outcome |-> Returned(f.second_ok, ~f.second_ok, TRUE)]

\* One call of a tool function: adapter takes the call's effects.
AdapterCalled(file, tool, f, call) ==
    /\ adapter.calls < MaxAdapterCalls
    /\ adapter' = [built |-> call.built, calls |-> adapter.calls + 1,
                   file |-> file, tool |-> tool, log |-> call.log,
                   sql_error |-> f.sql_error, outcome |-> call.outcome]
    /\ UNCHANGED <<sqlVars, flowVars, exec, guard, mask, pool, seed,
                   lazy, race, conn, clean>>

\* tools/sql_query_tool.py
AgentQueryDatabase ==
    \E f \in Faults :
        AdapterCalled("sql_query_tool", "query_database", f,
            QueryDatabaseCall("sql_query_tool", "_sql_tool", adapter.built, f))

\* tools/chart_tool.py
AgentGenerateChart ==
    \E f \in Faults :
        AdapterCalled("chart_tool", "generate_chart", f,
            TwoStepCall("chart_tool", "viz", CHART_MAX_ROWS, Caught,
                        adapter.built, f))

\* tools/report_tool.py
AgentGenerateReport ==
    \E f \in Faults :
        AdapterCalled("report_tool", "generate_report", f,
            TwoStepCall("report_tool", "report", REPORT_MAX_ROWS, Caught,
                        adapter.built, f))

\* mcp_server/server.py
ServerQueryDatabase ==
    \E f \in Faults :
        AdapterCalled("server", "query_database", f,
            QueryDatabaseCall("server", "_sql_tool", adapter.built, f))

ServerGenerateChart ==
    \E f \in Faults :
        AdapterCalled("server", "generate_chart", f,
            TwoStepCall("server", "viz", CHART_MAX_ROWS, Propagates,
                        adapter.built, f))

ServerGenerateReport ==
    \E f \in Faults :
        AdapterCalled("server", "generate_report", f,
            TwoStepCall("server", "report", REPORT_MAX_ROWS, Propagates,
                        adapter.built, f))

(***************************************************************************)
(* services/guardrail_service.py: check_input on several threads            *)
(*                                                                         *)
(* self._stats[k] += 1 reads the counter, adds one and stores the sum; the  *)
(* three steps are not atomic and nothing serializes the threads. A thread  *)
(* is [todo, read]: the counters it still has to increment, in the order of *)
(* the "Update stats" code, and the value it has read for the first of them *)
(* (NotRead before the read).                                               *)
(***************************************************************************)
NotRead == -1

NoRace == [threads |-> <<>>]

\* The user inputs the concurrent callers send.
RaceQueries == {q \in Queries : q.validity = "ok" /\ q.injection = q.pii}

CounterOf(status) ==
    CASE status = "blocked" -> "blocks"
      [] status = "warning" -> "warnings"
      [] OTHER -> "passes"

\* total_checks, then one counter per result.
Increments(results) ==
    <<"total_checks">> \o [i \in 1..Len(results) |-> CounterOf(results[i].status)]

\* A thread calls check_input: check_all, is_blocked and get_block_reason
\* work on locals only.
RaceCall ==
    /\ Len(race.threads) < MaxThreads
    /\ \E q \in RaceQueries :
          race' = [race EXCEPT !.threads =
                      Append(@, [todo |-> Increments(check_all(q)),
                                 read |-> NotRead])]
    /\ UNCHANGED <<sqlVars, flowVars, exec, guard, mask, pool, seed,
                   adapter, lazy, conn, clean>>

\* The load of self._stats[k].
RaceRead ==
    /\ \E i \in 1..Len(race.threads) :
          /\ race.threads[i].todo # <<>>
          /\ race.threads[i].read = NotRead
          /\ race' = [race EXCEPT !.threads[i].read =
                                      stats[Head(race.threads[i].todo)]]
    /\ UNCHANGED <<sqlVars, flowVars, exec, guard, mask, pool, seed,
                   adapter, lazy, conn, clean>>

\* The store of the value read plus one.
RaceWrite ==
    /\ \E i \in 1..Len(race.threads) :
          /\ race.threads[i].read # NotRead
          /\ stats' = [stats EXCEPT ![Head(race.threads[i].todo)] =
                                      race.threads[i].read + 1]
          /\ race' = [race EXCEPT !.threads[i].todo = Tail(@),
                                  !.threads[i].read = NotRead]
    /\ UNCHANGED <<sqlVars, flowRest, exec, guard, mask, pool, seed,
                   adapter, lazy, conn, clean>>

(***************************************************************************)
(* models/database.py: execute_query and its connections                    *)
(*                                                                         *)
(* conn.open counts the connections that were opened and not closed;        *)
(* conn.result is the result of the last call: whether it has the error key *)
(* and how many rows it carries.                                            *)
(***************************************************************************)
NoConn == [open |-> 0, calls |-> 0, result |-> [error |-> FALSE, rows |-> 0]]

\* Where a call may fail: sqlite3.connect, the PRAGMA of _get_connection,
\* or cursor.execute / fetchmany; "none" is the successful call.
FailurePoints == {"none", "connect", "pragma", "execute"}

\* conn.close() is the last statement of the try block, line 68: it runs
\* only when nothing before it raised. The except branch returns the
\* error-shaped result and closes nothing.
OpenAfter(fails) ==
    CASE fails = "none" -> 0
      [] fails = "connect" -> 0
      [] fails = "pragma" -> 1
      [] fails = "execute" -> 1

ExecuteQueryCall ==
    /\ conn.calls < MaxDbCalls
    /\ \E fails \in FailurePoints, rows \in 0..1 :
          conn' = [open |-> conn.open + OpenAfter(fails),
                   calls |-> conn.calls + 1,
                   result |-> IF fails = "none"
                              THEN [error |-> FALSE, rows |-> rows]
                              ELSE [error |-> TRUE, rows |-> 0]]
    /\ UNCHANGED <<sqlVars, flowVars, exec, guard, mask, pool, seed,
                   adapter, lazy, race, clean>>

\* The garbage collector finalizes a connection object that was left
\* open; when it does so is not in the program's hands.
ConnFinalize ==
    /\ conn.open > 0
    /\ conn' = [conn EXCEPT !.open = @ - 1]
    /\ UNCHANGED <<sqlVars, flowVars, exec, guard, mask, pool, seed,
                   adapter, lazy, race, clean>>

(***************************************************************************)
(* tools/*.py, mcp_server/server.py: one lazy getter, statement by          *)
(* statement                                                               *)
(*                                                                         *)
(*     global _sql_tool                                                    *)
(*     if _sql_tool is None:                                               *)
(*         _sql_tool = SQLTool()                                           *)
(*     return _sql_tool                                                    *)
(*                                                                         *)
(* The adapters run on the pool's worker threads, so several calls can be   *)
(* inside the getter at once. Instances are numbered in the order of their  *)
(* construction; the global holds NoInstance for None.                      *)
(***************************************************************************)
NoInstance == 0

NoLazy == [global |-> NoInstance, constructed |-> 0, calls |-> <<>>]

\* A call enters the getter.
LazyCall ==
    /\ Len(lazy.calls) < MaxGetterCalls
    /\ lazy' = [lazy EXCEPT !.calls =
                    Append(@, [pc |-> "check", built |-> NoInstance,
                               got |-> NoInstance])]
    /\ UNCHANGED <<sqlVars, flowVars, exec, guard, mask, pool, seed,
                   adapter, race, conn, clean>>

\* if _sql_tool is None
LazyCheck ==
    /\ \E i \in 1..Len(lazy.calls) :
          /\ lazy.calls[i].pc = "check"
          /\ lazy' = [lazy EXCEPT !.calls[i].pc =
                          IF lazy.global = NoInstance THEN "construct"
                          ELSE "return"]
    /\ UNCHANGED <<sqlVars, flowVars, exec, guard, mask, pool, seed,
                   adapter, race, conn, clean>>

\* SQLTool(): a new backend object is constructed.
LazyConstruct ==
    /\ \E i \in 1..Len(lazy.calls) :
          /\ lazy.calls[i].pc = "construct"
          /\ lazy' = [lazy EXCEPT !.constructed = @ + 1,
                                  !.calls[i].built = lazy.constructed + 1,
                                  !.calls[i].pc = "assign"]
    /\ UNCHANGED <<sqlVars, flowVars, exec, guard, mask, pool, seed,
                   adapter, race, conn, clean>>

\* _sql_tool = <the new object>
LazyAssign ==
    /\ \E i \in 1..Len(lazy.calls) :
          /\ lazy.calls[i].pc = "assign"
          /\ lazy' = [lazy EXCEPT !.global = lazy.calls[i].built,
                                  !.calls[i].pc = "return"]
    /\ UNCHANGED <<sqlVars, flowVars, exec, guard, mask, pool, seed,
                   adapter, race, conn, clean>>

\* return _sql_tool: the global as it is now.
LazyReturn ==
    /\ \E i \in 1..Len(lazy.calls) :
          /\ lazy.calls[i].pc = "return"
          /\ lazy' = [lazy EXCEPT !.calls[i].got = lazy.global,
                                  !.calls[i].pc = "done"]
    /\ UNCHANGED <<sqlVars, flowVars, exec, guard, mask, pool, seed,
                   adapter, race, conn, clean>>

(***************************************************************************)
(* agent/agent_workflow.py: _clean_messages                                 *)
(*                                                                         *)
(* A message is [type, tool_call_id, name, json, chart, omitted, has_rows,  *)
(* rows, truncated]. json says what json.loads makes of the content: a      *)
(* "dict", another JSON value ("list") or no JSON at all ("text"). chart is *)
(* the length of str(chart_base64), NoKey when the key is absent; rows      *)
(* holds the length of each row's JSON text.                                *)
(***************************************************************************)
CHART_LIMIT == 1000

ROWS_LIMIT == 4000

SAMPLE_ROWS == 5

NoKey == -1

\* len("[BASE64_IMAGE_DATA_OMITTED]")
OmittedLen == 27

PlainMessage(type) ==
    [type |-> type, tool_call_id |-> "", name |-> "", json |-> "text",
     chart |-> NoKey, omitted |-> FALSE, has_rows |-> FALSE, rows |-> <<>>,
     truncated |-> FALSE]

\* A tool result as the ToolNode stores it: name and tool_call_id set.
ToolResult(id, json, chart, has_rows, rows) ==
    [type |-> "tool", tool_call_id |-> id, name |-> "generate_chart",
     json |-> json, chart |-> chart, omitted |-> FALSE, has_rows |-> has_rows,
     rows |-> rows, truncated |-> FALSE]

\* Row lists around the limit: with the brackets and the ", " separators
\* their JSON texts are 2, 12, 70, 4000, 4001 and 6010 characters long.
RowLists ==
    {<<>>, <<10>>, <<10, 10, 10, 10, 10, 10>>,
     <<1000, 1000, 1000, 992>>, <<1000, 1000, 1000, 993>>,
     <<1000, 1000, 1000, 1000, 1000, 1000>>}

ChartLens == {NoKey, 0, CHART_LIMIT, CHART_LIMIT + 1}

HistoryMessages ==
    {PlainMessage("human"), PlainMessage("ai")}
    \cup {ToolResult(id, "dict", c, TRUE, r) :
             id \in {"call_1", "call_2"}, c \in ChartLens, r \in RowLists}
    \cup {ToolResult("call_1", "dict", c, FALSE, <<>>) : c \in ChartLens}
    \cup {ToolResult("call_1", j, NoKey, FALSE, <<>>) : j \in {"list", "text"}}

RECURSIVE SumLens(_)
SumLens(rows) == IF rows = <<>> THEN 0 ELSE Head(rows) + SumLens(Tail(rows))

\* len(json.dumps(rows)): "[" and "]", the rows, ", " between them.
RowsStrLen(rows) ==
    IF rows = <<>> THEN 2 ELSE 2 + SumLens(rows) + 2 * (Len(rows) - 1)

\* "chart_base64" in content_data and len(str(...)) > 1000
ChartTooLarge(msg) == msg.chart # NoKey /\ msg.chart > CHART_LIMIT

RowsTooLargeInclusive(msg) ==
    msg.has_rows /\ RowsStrLen(msg.rows) >= ROWS_LIMIT

\* "rows" in content_data, a list, and len(rows_str) > 4000
RowsTooLarge(msg) == msg.has_rows /\ RowsStrLen(msg.rows) > ROWS_LIMIT

\* rows[:5]
FirstRows(rows) == SubSeq(rows, 1, IF Len(rows) < SAMPLE_ROWS THEN Len(rows)
                                   ELSE SAMPLE_ROWS)

\* The body of the loop for one message: a new ToolMessage built from the
\* cleaned content_data and the original tool_call_id when something
\* changed, the message itself otherwise.
CleanMessage(msg) ==
    IF msg.type = "tool" /\ msg.json = "dict"
       /\ (ChartTooLarge(msg) \/ RowsTooLarge(msg))
    THEN [type |-> "tool", tool_call_id |-> msg.tool_call_id, name |-> "",
          json |-> "dict",
          chart |-> IF ChartTooLarge(msg) THEN OmittedLen ELSE msg.chart,
          omitted |-> ChartTooLarge(msg),
          has_rows |-> msg.has_rows,
          rows |-> IF RowsTooLarge(msg) THEN FirstRows(msg.rows) ELSE msg.rows,
          truncated |-> RowsTooLarge(msg)]
    ELSE msg

_clean_messages(msgs) == [i \in 1..Len(msgs) |-> CleanMessage(msgs[i])]

\* content_data = json.loads(msg.content): the changes are made to the
\* parsed value, not to the message.
ContentDataIs == "parsed"

NoClean == [given |-> <<>>, state |-> <<>>, cleaned |-> <<>>, called |-> FALSE]

\* agent_node, line 167: given is the history as it was, state the
\* history of the state after the call, cleaned the list returned.
CleanCall ==
    /\ ~clean.called
    /\ LET out == _clean_messages(clean.state)
       IN  clean' = [clean EXCEPT !.called = TRUE,
                                  !.cleaned = out,
                                  !.state = IF ContentDataIs = "parsed" THEN @
                                            ELSE out]
    /\ UNCHANGED <<sqlVars, flowVars, exec, guard, mask, pool, seed,
                   adapter, lazy, race, conn>>

(***************************************************************************)
(* Specifications                                                          *)
(***************************************************************************)
LateInit ==
    /\ adapter = NoAdapter
    /\ lazy = NoLazy
    /\ race = NoRace
    /\ conn = NoConn
    /\ clean = NoClean

AuxInit ==
    /\ exec = NoExec
    /\ guard = NoGuard
    /\ mask = NoMask
    /\ pool = NoPool
    /\ seed = NoSeed
    /\ LateInit

FlowInit ==
    /\ graph = "none"
    /\ caller = "none"
    /\ stats = NoStats
    /\ pc = "init"
    /\ query = NoQuery
    /\ messages = <<>>
    /\ intent = ""
    /\ guardrail_results = <<>>
    /\ cost_info = <<>>
    /\ tools_used = <<>>
    /\ steps = 0
    /\ trace = <<>>
    /\ rounds = 0
    /\ llm_calls = <<>>
    /\ tool_calls = {}
    /\ validations = 0
    /\ db_calls = 0
    /\ result = NoResult
    /\ http = NoResponse
    /\ cost_rows = <<>>

\* Spec: one request through the workflow, over HTTP or by a direct call.
Init ==
    /\ sql = <<>>
    /\ verdict = NoVerdict
    /\ FlowInit
    /\ AuxInit

Next ==
    \/ Lifespan
    \/ Query
    \/ InvokeDirect
    \/ GuardrailNode
    \/ RouterNode
    \/ GeneralResponseNode
    \/ AgentNode
    \/ ToolsNode
    \/ OutputGuardNode
    \/ GraphRecursionError
    \/ InvokeReturn
    \/ QueryTimeout
    \/ QueryRespond

Spec == Init /\ [][Next]_vars

\* SpecSql: validate_sql on every SQL text within the bounds.
InitSql ==
    /\ sql \in SeqsUpTo(OpsAlphabet, MaxSqlLen)
    /\ verdict = NoVerdict
    /\ FlowInit
    /\ AuxInit

NextSql ==
    \/ ValidateSqlCall
    \/ CheckSqlSafetyCall

SpecSql == InitSql /\ [][NextSql]_vars

\* SpecTables: validate_sql on "SELECT name" followed by every sequence of
\* FROM / JOIN / comma / table-name tokens within the bounds.
TableAlphabet == {"FROM", "JOIN", ",", "customers", "secret_data", "o"}

TableTexts ==
    {<<"SELECT", "name">> \o t : t \in SeqsUpTo(TableAlphabet, MaxTailLen)}

InitTables ==
    /\ sql \in TableTexts
    /\ verdict = NoVerdict
    /\ FlowInit
    /\ AuxInit

SpecTables == InitTables /\ [][NextSql]_vars

\* SpecGuard: check_input calls on one GuardrailService, under every
\* configuration of the enabled checks.
InitGuard ==
    /\ sql = <<>>
    /\ verdict = NoVerdict
    /\ FlowInit
    /\ exec = NoExec
    /\ guard \in {[NoGuard EXCEPT !.config = cfg] : cfg \in Configs}
    /\ mask = NoMask
    /\ pool = NoPool
    /\ seed = NoSeed
    /\ LateInit

NextGuard ==
    \/ CheckInputCall
    \/ GetStats
    \/ ModifyReturned

SpecGuard == InitGuard /\ [][NextGuard]_vars

\* SpecMask: one call of mask_sensitive_data on every list of rows within
\* the bounds, under every masking configuration.
InitMask ==
    /\ sql = <<>>
    /\ verdict = NoVerdict
    /\ FlowInit
    /\ exec = NoExec
    /\ guard = NoGuard
    /\ mask \in {[NoMask EXCEPT !.config = cfg, !.given = rows, !.rows = rows,
                                !.columns = columns] :
                    cfg \in MaskConfigs,
                    rows \in SeqsUpTo(MaskRows, MaxRows),
                    columns \in {{"email", "city"}, {"city"}}}
    /\ pool = NoPool
    /\ seed = NoSeed
    /\ LateInit

NextMask == MaskCall

SpecMask == InitMask /\ [][NextMask]_vars

\* SpecPool: /query requests arriving at the API process and served through
\* the thread pool.
NextPool ==
    \/ PoolSubmit
    \/ PoolStart
    \/ PoolReturn
    \/ PoolTimeout

SpecPool == Init /\ [][NextPool]_vars

\* SpecSeed: runs of seed_database at different times.
NextSeed ==
    \/ SeedTick
    \/ SeedRun

SpecSeed == Init /\ [][NextSeed]_vars

\* SpecAdapter: calls of the agent adapters and of the protocol-server tools
\* in one process, with every combination of failures.
NextAdapter ==
    \/ AgentQueryDatabase
    \/ AgentGenerateChart
    \/ AgentGenerateReport
    \/ ServerQueryDatabase
    \/ ServerGenerateChart
    \/ ServerGenerateReport

SpecAdapter == Init /\ [][NextAdapter]_vars

\* SpecRace: check_input called from several threads at once.
NextRace ==
    \/ RaceCall
    \/ RaceRead
    \/ RaceWrite

SpecRace == Init /\ [][NextRace]_vars

\* SpecConn: execute_query calls on one DatabaseManager.
NextConn ==
    \/ ExecuteQueryCall
    \/ ConnFinalize

SpecConn == Init /\ [][NextConn]_vars

\* SpecLazy: calls of one lazy getter, from one thread after the other or
\* from several at once.
NextLazy ==
    \/ LazyCall
    \/ LazyCheck
    \/ LazyConstruct
    \/ LazyAssign
    \/ LazyReturn

SpecLazy == Init /\ [][NextLazy]_vars

\* SpecClean: _clean_messages on every history within the bounds.
InitClean ==
    /\ sql = <<>>
    /\ verdict = NoVerdict
    /\ FlowInit
    /\ exec = NoExec
    /\ guard = NoGuard
    /\ mask = NoMask
    /\ pool = NoPool
    /\ seed = NoSeed
    /\ adapter = NoAdapter
    /\ lazy = NoLazy
    /\ race = NoRace
    /\ conn = NoConn
    /\ clean \in {[NoClean EXCEPT !.given = msgs, !.state = msgs] :
                     msgs \in SeqsUpTo(HistoryMessages, MaxMessages)}

NextClean == CleanCall

SpecClean == InitClean /\ [][NextClean]_vars

\* SpecExec: one call of NLToSQLService.execute.
NextExec ==
    \/ ExecGenerateSql
    \/ ExecValidate
    \/ ExecQuery

SpecExec == Init /\ [][NextExec]_vars

(***************************************************************************)
(* Claims                                                                  *)
(***************************************************************************)
OutputChecks == {"sql_validation", "sql_injection_check"}

BlockedInputMessage(q) ==
    AIMessage("I can't process that request. " \o check_input(q).block_reason)

BlockedOutputMessage ==
    AIMessage("The generated query was blocked by safety checks. Please rephrase your question.")

Executed(node) == \E i \in 1..Len(trace) : trace[i] = node

\* check_input has been called in this run: it counted the call, or raised.
InputCheckCalled == stats.total_checks >= 1 \/ query = RaisingQuery

\* C1: guardrail_check is the first node of every run; the input check has
\* run before the router, the agent or the tools node executes, so no tool
\* execution precedes it, whatever the intent.
C1_GuardrailFirst ==
    /\ trace # <<>> => trace[1] = "guardrail_check" /\ InputCheckCalled
    /\ \A i \in 1..Len(trace) :
          trace[i] \in {"router", "agent", "tools"} =>
             \E j \in 1..(i - 1) : trace[j] = "guardrail_check"
    /\ tool_calls # {} => InputCheckCalled

C1_Witness ==
    /\ tool_calls # {}
    /\ intent \in DataIntents
    /\ trace[1] = "guardrail_check"
    /\ Executed("tools")

\* C2: when check_input reports the message blocked, guardrail_check appends
\* exactly one assistant message "I can't process that request. {reason}"
\* and the run ends: no other node runs and no LLM call is made.
C2_BlockedInputEndsRun ==
    (trace # <<>> /\ ~check_input(query).allowed) =>
        /\ trace = <<"guardrail_check">>
        /\ messages = <<HumanMessage, BlockedInputMessage(query)>>
        /\ llm_calls = <<>>
        /\ tool_calls = {}
        /\ pc \in {"END", "returned", "done"}

C2_Witness ==
    /\ pc = "END"
    /\ query.injection
    /\ query.validity = "ok"
    /\ trace = <<"guardrail_check">>
    /\ Len(messages) = 2

\* C3: a /query request blocked by the input guardrails is answered with a
\* 200-level QueryResponse carrying the explanatory message and the blocked
\* guardrail entry, never with HTTP 500.
C3_BlockedInputIs200 ==
    (pc = "done" /\ caller = "http" /\ ~check_input(query).allowed) =>
        /\ http.status = 200
        /\ http.response = BlockedInputMessage(query).content
        /\ is_blocked(http.guardrail_checks)

\* C4: whenever an output check (sql_validation or sql_injection_check) is
\* blocked, output_guard appends the "blocked by safety checks" message and
\* the run ends there: the agent does not run again.
C4_BlockedOutputEndsRun ==
    (\E i \in 1..Len(guardrail_results) :
        /\ guardrail_results[i].guardrail_name \in OutputChecks
        /\ guardrail_results[i].status = "blocked") =>
        /\ pc \notin {"agent", "tools", "output_guard"}
        /\ messages[Len(messages)] = BlockedOutputMessage

\* C5: a tool result whose SQL the output guardrails block is not shown: the
\* chart and report of invoke's result and of the /query response do not
\* come from such a tool result, and the block is listed in the response.
ResultBlocked(msgs, i) ==
    i # 0 /\ is_blocked(output_check_all(msgs[i].data.sql))

C5_BlockedResultNotShown ==
    /\ result.returned =>
          /\ ~ResultBlocked(result.messages, result.chart_result)
          /\ ~ResultBlocked(result.messages, result.report_result)
    /\ http.status = 200 =>
          /\ ~ResultBlocked(result.messages, http.chart)
          /\ ~ResultBlocked(result.messages, http.report)

\* C6: a run whose classified intent is not sql_query, visualization or report
\* goes router -> general_response -> END: the agent and the tools never
\* run, no tool is invoked and validate_sql is never called.
C6_GeneralNeverUsesTools ==
    (Executed("router") /\ intent \notin DataIntents) =>
        /\ ~Executed("agent")
        /\ ~Executed("tools")
        /\ ~Executed("output_guard")
        /\ tool_calls = {}
        /\ validations = 0
        /\ db_calls = 0
        /\ pc \in {"general_response", "END", "returned", "done"}
        /\ pc # "general_response" =>
              trace = <<"guardrail_check", "router", "general_response">>

C6_Witness ==
    /\ pc = "END"
    /\ intent = "greeting"
    /\ trace = <<"guardrail_check", "router", "general_response">>

\* C7: every run ends after at most 15 node executions.
C7_StepCeiling == steps <= recursion_limit

\* C8: invoke never lets an exception reach its caller: every failure gives
\* the error-shaped result.
C8_InvokeNeverRaises == pc = "returned" => result.returned /\ ~result.raised

\* C9: the totals invoke returns, and the totals record_cost persists, are
\* the sum over every LLM call made while serving the request.
C9_EveryCallMetered ==
    /\ (result.returned /\ result.intent # "error") =>
          CostTotal(result.cost) = SumTokens(llm_calls)
    /\ (cost_rows # <<>> /\ result.intent # "error") =>
          cost_rows[1].total_tokens = SumTokens(llm_calls)

\* C10: validate_sql returns valid only for texts that start with SELECT or
\* WITH and hold none of the blocked operations as a whole word outside
\* single-quoted literals; check_sql_safety therefore blocks DROP, DELETE and
\* UPDATE statements.
QuotesBefore(s, i) == Cardinality({j \in 1..(i - 1) : s[j] = "'"})

OutsideLiteral(s, i) == s[i] # "'" /\ QuotesBefore(s, i) % 2 = 0

WriteWords ==
    {"DROP", "DELETE", "UPDATE", "INSERT", "ALTER", "CREATE", "TRUNCATE",
     "EXEC", "EXECUTE", "GRANT", "REVOKE", "ATTACH", "DETACH", "VACUUM",
     "REINDEX", "PRAGMA"}

C10_OnlyReadOnlyValid ==
    /\ (verdict.call # "none" /\ verdict.valid) =>
          /\ Len(sql) > 0
          /\ Upper(sql[1]) \in {"SELECT", "WITH"}
          /\ \A i \in 1..Len(sql) :
                OutsideLiteral(sql, i) => Upper(sql[i]) \notin WriteWords
    /\ (/\ verdict.call = "check_sql_safety"
        /\ Len(sql) > 0
        /\ Upper(sql[1]) \in {"DROP", "DELETE", "UPDATE"}) =>
          verdict.status = "blocked"

C10_Witness ==
    /\ verdict.call = "validate_sql"
    /\ verdict.valid
    /\ sql = <<"SELECT", "'", "DROP", "'">>

\* C11: validate_sql rejects every query that names, anywhere in a FROM or
\* JOIN table list (the tables after a comma included), a table longer than
\* 3 characters that is neither in the allow-list nor a CTE of the query.
RECURSIVE InTableList(_, _)
InTableList(s, i) ==
    /\ i >= 2
    /\ i <= Len(s)
    /\ IsWord(s[i])
    /\ s[i] \notin {"FROM", "JOIN"}
    /\ \/ s[i - 1] \in {"FROM", "JOIN"}
       \/ s[i - 1] = "," /\ InTableList(s, i - 2)

C11_DisallowedTablesRejected ==
    (verdict.call # "none" /\ verdict.valid) =>
        \A i \in 1..Len(sql) :
            InTableList(sql, i) =>
                \/ Len(sql[i]) <= 3
                \/ sql[i] \in ALLOWED_TABLES
                \/ sql[i] \in CteNames(UpperSeq(sql))

\* C12 (as stated): validate_sql rejects every text that, literals removed,
\* has a semicolon anywhere but as its very last character.
C12_NoInnerSemicolon ==
    (verdict.call = "validate_sql" /\ verdict.valid) =>
        LET t == StripLiterals(sql)
        IN  \A i \in 1..Len(t) :
                t[i] \in Semicolons =>
                    t[i] = ";" /\ i = Len(t) /\ sql[Len(sql)] = ";"

\* C12 (amended): validate_sql rejects every text that, literals removed,
\* has a semicolon outside the run of semicolons that ends the text, and it
\* accepts an otherwise valid statement whose only semicolon is its final
\* character.
C12_TrailingSemicolons ==
    verdict.call = "validate_sql" =>
        /\ verdict.valid =>
              LET t == StripLiterals(sql)
              IN  \A i \in 1..Len(t) :
                      t[i] \in Semicolons =>
                          i = Len(t) /\ sql[Len(sql)] \in Semicolons
        /\ (/\ Len(sql) > 1
            /\ sql[Len(sql)] = ";"
            /\ \A i \in 1..(Len(sql) - 1) : sql[i] \notin Semicolons
            /\ validate_sql(SubSeq(sql, 1, Len(sql) - 1), ALLOWED_TABLES).valid)
              => verdict.valid

C12_Witness ==
    /\ verdict.call = "validate_sql"
    /\ verdict.valid
    /\ sql = <<"SELECT", "FROM", "customers", ";">>

\* C13 (as stated): execute reaches the database only after validation
\* succeeded, and on a generation error or a validation failure the result
\* carries an error, empty rows and columns and row_count 0, with no
\* database call made.
ExecDbCalls == {i \in 1..Len(exec.calls) : exec.calls[i].op = "execute_query"}

C13_ErrorResultHasEmptyRows ==
    (exec.result.returned /\ exec.result.error \in {"generation", "validation"}) =>
        /\ exec.result.fields
        /\ exec.result.rows = "none"
        /\ ExecDbCalls = {}

\* C13 (amended): execute_query is called only after generate_sql returned
\* without error and validate_sql returned valid for the very text that is
\* executed; a validation failure gives an error result with empty rows and
\* columns and row_count 0, a generation error gives generate_sql's own error
\* result (sql "", no rows, columns or row_count keys), and in both cases no
\* database call is made.
C13_DatabaseOnlyAfterValidation ==
    /\ \A i \in ExecDbCalls :
          /\ i = 3
          /\ exec.calls[1] = ExecCall("generate_sql", exec.calls[i].sql, TRUE)
          /\ exec.calls[2] = ExecCall("validate_sql", exec.calls[i].sql, TRUE)
          /\ validate_sql(exec.calls[i].sql, ALLOWED_TABLES).valid
    /\ (exec.result.returned /\ exec.result.error = "validation") =>
          /\ exec.result.fields
          /\ exec.result.rows = "none"
          /\ ExecDbCalls = {}
    /\ (exec.result.returned /\ exec.result.error = "generation") =>
          /\ ~exec.result.fields
          /\ exec.result.sql = <<>>
          /\ exec.result.rows = "none"
          /\ ExecDbCalls = {}

C13_Witness ==
    /\ exec.result.returned
    /\ exec.result.error = ""
    /\ exec.result.rows = "plain"
    /\ ExecDbCalls = {3}

\* C14: check_input returns allowed exactly when no result is blocked; a PII
\* match alone gives a warning and leaves the input allowed; block_reason is
\* the message of the first blocked result in the order injection, pii,
\* validation, and "" when the input is allowed.
InjectionMessage ==
    "Potential prompt injection detected. Please rephrase your question about the business data."

ValidityMessage(q) ==
    IF q.validity = "too_long"
    THEN "Query exceeds maximum length of 1000 characters."
    ELSE "This question appears to be off-topic. I can help with e-commerce business analytics questions."

C14_AllowedIffNoBlock ==
    guard.calls > 0 =>
        LET r == guard.last
            q == guard.q
            cfg == guard.config
            inj == cfg.injection_detection /\ q.injection
            bad == cfg.query_validation /\ q.validity # "ok"
        IN  /\ r.allowed <=> \A i \in 1..Len(r.results) : r.results[i].status # "blocked"
            /\ r.allowed <=> ~(inj \/ bad)
            /\ (q.pii /\ ~q.injection /\ q.validity = "ok") => r.allowed
            /\ (q.pii /\ cfg.pii_filter) =>
                  \E i \in 1..Len(r.results) :
                      /\ r.results[i].guardrail_name = "pii_filter"
                      /\ r.results[i].status = "warning"
            /\ r.block_reason = IF inj THEN InjectionMessage
                                ELSE IF bad THEN ValidityMessage(q)
                                ELSE ""

C14_Witness ==
    /\ guard.calls > 0
    /\ guard.config = DefaultConfig
    /\ guard.q = [injection |-> TRUE, pii |-> TRUE, validity |-> "off_topic"]
    /\ guard.last.block_reason = InjectionMessage

\* C15: check_all returns exactly one result per enabled check, in the order
\* injection_detection, pii_filter, query_validation; with all three enabled
\* it returns 3 results, also when an earlier check blocked the input.
EnabledNames(cfg) ==
    (IF cfg.injection_detection THEN <<"injection_detection">> ELSE <<>>)
    \o (IF cfg.pii_filter THEN <<"pii_filter">> ELSE <<>>)
    \o (IF cfg.query_validation THEN <<"query_validation">> ELSE <<>>)

C15_OneResultPerEnabledCheck ==
    guard.calls > 0 =>
        /\ [i \in 1..Len(guard.last.results) |-> guard.last.results[i].guardrail_name]
              = EnabledNames(guard.config)
        /\ guard.config = DefaultConfig => Len(guard.last.results) = 3

C15_Witness ==
    /\ guard.calls > 0
    /\ guard.config = DefaultConfig
    /\ guard.q.injection
    /\ guard.last.results[1].status = "blocked"
    /\ Len(guard.last.results) = 3

\* C17: after any sequence of check_input calls total_checks is the number of
\* calls and blocks + warnings + passes is the number of results returned
\* (3 per call with all checks enabled); no counter ever decreases, and
\* changing the dictionary get_stats returned leaves the counters alone.
StatsTally ==
    /\ stats.total_checks = guard.calls
    /\ stats.blocks + stats.warnings + stats.passes = guard.n_results
    /\ guard.config = DefaultConfig => guard.n_results = 3 * guard.calls

StatsGrow ==
    /\ stats'.total_checks >= stats.total_checks
    /\ stats'.blocks >= stats.blocks
    /\ stats'.warnings >= stats.warnings
    /\ stats'.passes >= stats.passes

C17_StatsCountEveryResult == [] StatsTally /\ [][StatsGrow]_vars

C17_Witness ==
    /\ guard.calls = 2
    /\ stats.blocks >= 1
    /\ stats.warnings >= 1
    /\ guard.ref = "copy"
    /\ guard.copy = Changed(stats)

\* C16: with masking enabled, mask_sensitive_data returns rows in which every
\* non-empty value of a configured sensitive column present in columns is a
\* string of the same length, its first visible_chars characters kept and the
\* others replaced by masking_char (all of them when the value is not longer
\* than visible_chars); the other values are returned unchanged and the
\* input rows are not modified.
IsMasked(cfg, original, masked) ==
    /\ masked.type = "str"
    /\ Len(masked.chars) = Len(original.chars)
    /\ \A k \in 1..Len(original.chars) :
          masked.chars[k] =
              IF Len(original.chars) > cfg.visible_chars /\ k <= cfg.visible_chars
              THEN original.chars[k]
              ELSE cfg.masking_char

C16_SensitiveValuesMasked ==
    (mask.called /\ mask.config.enabled) =>
        /\ Len(mask.masked) = Len(mask.given)
        /\ \A i \in 1..Len(mask.given) :
              \A col \in DOMAIN mask.given[i] :
                  LET v == mask.given[i][col]
                      sensitive == col \in mask.config.sensitive_columns
                                   /\ col \in mask.columns
                  IN  /\ (sensitive /\ v.type # "none" /\ v.chars # <<>>) =>
                            IsMasked(mask.config, v, mask.masked[i][col])
                      /\ ~sensitive => mask.masked[i][col] = v
        /\ mask.rows = mask.given

\* C18: at most 4 workflow.invoke executions are in progress at any time, and
\* a queued invocation starts only in a step before which fewer than 4 were
\* running.
StartsOnFreeWorker ==
    \A i \in 1..Len(pool.requests) :
        (pool.requests[i].work = "queued" /\ pool'.requests[i].work = "running")
            => Running(pool.requests) < max_workers

C18_AtMostFourInvocations ==
    [] (Running(pool.requests) <= max_workers) /\ [][StartsOnFreeWorker]_vars

\* Four invocations are running and a fifth request waits in the queue.
C18_Witness ==
    /\ Running(pool.requests) = max_workers
    /\ \E i \in 1..Len(pool.requests) :
          pool.requests[i] = [work |-> "queued", response |-> "none"]

\* C19: the step in which a request with a running invocation times out
\* answers 504 and leaves that invocation running on its worker, so the number
\* of busy workers does not change; the 504 is never replaced by a response
\* built from the invocation's result.
TimeoutKeepsWorker ==
    \A i \in 1..Len(pool.requests) :
        /\ (pool.requests[i] = [work |-> "running", response |-> "none"]
            /\ pool'.requests[i].response # "none"
            /\ pool'.requests[i].work # "returned")
               => /\ pool'.requests[i] = [work |-> "running", response |-> "504"]
                  /\ Running(pool'.requests) = Running(pool.requests)
        /\ pool.requests[i].response = "504"
               => pool'.requests[i].response = "504"

C19_TimedOutInvocationKeepsWorker == [][TimeoutKeepsWorker]_vars

\* A timed-out invocation has returned after the 504 was sent, and another
\* timed-out invocation is still running while all four workers are busy.
C19_Witness ==
    /\ Running(pool.requests) = max_workers
    /\ \E i, j \in 1..Len(pool.requests) :
          /\ pool.requests[i] = [work |-> "returned", response |-> "504"]
          /\ pool.requests[j] = [work |-> "running", response |-> "504"]

\* C20: any two runs of seed_database produce the same dataset, row for row
\* and field for field, whenever they are executed, and the emails of a run
\* are pairwise distinct.
C20_SameDatasetWheneverRun ==
    /\ \A i, j \in 1..Len(seed.runs) :
          seed.runs[i].customers = seed.runs[j].customers
    /\ \A r \in 1..Len(seed.runs) :
          \A a, b \in 1..Len(seed.runs[r].customers) :
              a # b => seed.runs[r].customers[a].email
                         # seed.runs[r].customers[b].email

\* C21: a call of an agent adapter (query_database, generate_chart,
\* generate_report) never raises: whatever fails during the call, lazy
\* construction of a backend included, it returns a result, and a call in
\* which a constructor raised returns success False with an error.
AgentFiles == {"sql_query_tool", "chart_tool", "report_tool"}

ConstructorRaised ==
    \E i \in 1..Len(adapter.log) :
        adapter.log[i].op = "construct" /\ ~adapter.log[i].ok

C21_AdaptersNeverRaise ==
    adapter.file \in AgentFiles =>
        /\ ~adapter.outcome.raised
        /\ adapter.outcome.returned
        /\ ConstructorRaised =>
              (~adapter.outcome.success /\ adapter.outcome.error)

\* C25: generate_chart and generate_report, as agent adapters and as
\* protocol-server tools, run the SQL tool first (max_rows 50 for charts, 100
\* for reports) and touch the second backend only after a query result
\* without error; a query error is answered with {success: False, error} and
\* nothing is done with the second backend; whenever the SQL step succeeded,
\* the call returns a result that carries the query's sql and row_count.
TwoStepTools == {"generate_chart", "generate_report"}

MaxRowsOf(tool) ==
    IF tool = "generate_chart" THEN CHART_MAX_ROWS ELSE REPORT_MAX_ROWS

SqlExecuted(ok) ==
    \E i \in 1..Len(adapter.log) :
        adapter.log[i] = Execute("sql", MaxRowsOf(adapter.tool), ok)

SecondExecuted ==
    \E i \in 1..Len(adapter.log) :
        adapter.log[i].op = "execute" /\ adapter.log[i].backend # "sql"

SqlFirstThenSecond ==
    /\ \A i \in 1..Len(adapter.log) :
          adapter.log[i].backend # "sql" =>
              \E j \in 1..(i - 1) :
                  adapter.log[j] = Execute("sql", MaxRowsOf(adapter.tool), TRUE)
    /\ \A i \in 1..Len(adapter.log) :
          (adapter.log[i].op = "execute" /\ adapter.log[i].backend = "sql") =>
              adapter.log[i].max_rows = MaxRowsOf(adapter.tool)
    /\ SqlExecuted(FALSE) =>
          /\ adapter.outcome = Returned(FALSE, TRUE, FALSE)
          /\ \A i \in 1..Len(adapter.log) : adapter.log[i].backend = "sql"

C25_SqlSuccessCarriesSql ==
    adapter.tool \in TwoStepTools =>
        /\ SqlFirstThenSecond
        /\ SqlExecuted(TRUE) => (adapter.outcome.returned /\ adapter.outcome.sql)

\* C25 (amended): the same, except that the result carries sql and row_count
\* whenever the second backend was executed; a second backend whose
\* construction raises yields {success: False, error} without them in the
\* adapters and an exception in the protocol-server tools.
C25_SqlFirstThenSecondBackend ==
    adapter.tool \in TwoStepTools =>
        /\ SqlFirstThenSecond
        /\ SecondExecuted => (adapter.outcome.returned /\ adapter.outcome.sql)
        /\ (SqlExecuted(TRUE) /\ ~SecondExecuted) =>
              adapter.outcome = (IF adapter.file = "server" THEN Propagates
                                 ELSE Caught)

\* A protocol-server call whose query succeeded and whose second backend
\* ran, after an earlier call had built the SQL backend.
C25_Witness ==
    /\ adapter.tool \in TwoStepTools
    /\ adapter.file = "server"
    /\ SqlExecuted(TRUE)
    /\ SecondExecuted
    /\ adapter.outcome.sql
    /\ adapter.log[1].op = "execute"

\* C22: when the tools node executed a tool during a run, the tools_used of
\* the /query response and of the cost row written by record_cost contain
\* that tool's name.
InSeq(x, seq) == \E i \in 1..Len(seq) : seq[i] = x

C22_ToolsUsedNamesExecutedTools ==
    \A t \in tool_calls :
        /\ http.status = 200 => InSeq(t, http.tools_used)
        /\ \A i \in 1..Len(cost_rows) : InSeq(t, cost_rows[i].tools_used)

\* C23: once every concurrent check_input call has completed, total_checks
\* equals the number of calls and blocks + warnings + passes equals the
\* number of results the calls produced, whatever the interleaving.
RaceDone ==
    \A i \in 1..Len(race.threads) : race.threads[i].todo = <<>>

C23_NoLostCounterUpdate ==
    RaceDone =>
        /\ stats.total_checks = Len(race.threads)
        /\ stats.blocks + stats.warnings + stats.passes
               = Len(check_all(NoQuery)) * Len(race.threads)

\* C24: between calls of execute_query no connection is open: every
\* connection a call opened was closed before it returned, after a success
\* and after a failure answered with the error-shaped result.
C24_NoConnectionHeld ==
    /\ conn.open = 0
    /\ conn.result.error => conn.result.rows = 0

\* C27: a lazy getter constructs its backend at most once per process and
\* every call returns that one instance, also when the first calls are made
\* concurrently.
C27_BackendConstructedOnce ==
    /\ lazy.constructed <= 1
    /\ \A i, j \in 1..Len(lazy.calls) :
          (lazy.calls[i].pc = "done" /\ lazy.calls[j].pc = "done")
              => lazy.calls[i].got = lazy.calls[j].got

\* C26: _clean_messages returns a list of the same length and order as the
\* history. A tool-result message whose chart_base64 is longer than 1,000
\* characters or whose serialized rows are longer than 4,000 characters is
\* replaced by a new message with the same tool_call_id, in which the chart
\* is the placeholder (if the chart was too long) and the rows are the first
\* 5 rows with the data_truncated_for_llm flag (if the rows were too long);
\* every other message is returned as it is, and the history in the state
\* keeps its full content.
Oversized(msg) ==
    /\ msg.type = "tool"
    /\ msg.json = "dict"
    /\ \/ (msg.chart # NoKey /\ msg.chart > CHART_LIMIT)
       \/ (msg.has_rows /\ RowsStrLen(msg.rows) > ROWS_LIMIT)

Replaces(new, old) ==
    /\ new.type = "tool"
    /\ new.tool_call_id = old.tool_call_id
    /\ IF old.chart # NoKey /\ old.chart > CHART_LIMIT
       THEN new.omitted /\ new.chart = OmittedLen
       ELSE ~new.omitted /\ new.chart = old.chart
    /\ IF old.has_rows /\ RowsStrLen(old.rows) > ROWS_LIMIT
       THEN /\ new.truncated
            /\ Len(new.rows) <= SAMPLE_ROWS
            /\ \A k \in 1..Len(new.rows) : new.rows[k] = old.rows[k]
            /\ Len(new.rows) = SAMPLE_ROWS \/ Len(new.rows) = Len(old.rows)
       ELSE ~new.truncated /\ new.rows = old.rows

C26_CleanedCopyHistoryKept ==
    clean.called =>
        /\ Len(clean.cleaned) = Len(clean.given)
        /\ \A i \in 1..Len(clean.given) :
              IF Oversized(clean.given[i])
              THEN Replaces(clean.cleaned[i], clean.given[i])
              ELSE clean.cleaned[i] = clean.given[i]
        /\ clean.state = clean.given

\* A history with a tool result whose rows are just over the limit, next to
\* one whose rows are exactly at the limit, has been cleaned.
C26_Witness ==
    /\ clean.called
    /\ \E i, j \in 1..Len(clean.given) :
          /\ clean.given[i].has_rows
          /\ RowsStrLen(clean.given[i].rows) = ROWS_LIMIT + 1
          /\ clean.cleaned[i].truncated
          /\ clean.given[j].has_rows
          /\ RowsStrLen(clean.given[j].rows) = ROWS_LIMIT
          /\ clean.cleaned[j] = clean.given[j]

\* C28: when check_input raises inside guardrail_node, the node records an
\* empty guardrail_results list and appends no message, and the run goes on
\* to the router as if the input had been allowed.
C28_GuardrailFailsOpen ==
    (query = RaisingQuery /\ trace # <<>>) =>
        /\ trace = <<"guardrail_check">> =>
              /\ guardrail_results = <<>>
              /\ messages = <<HumanMessage>>
              /\ pc = "router"
        /\ Len(trace) > 1 => trace[2] = "router"
        /\ \A i \in 1..Len(guardrail_results) :
              guardrail_results[i].guardrail_name
                  \in {"sql_validation", "sql_injection_check"}

\* After check_input raised, the run has gone through the router and the
\* agent and has executed a tool.
C28_Witness ==
    /\ query = RaisingQuery
    /\ Executed("router")
    /\ tool_calls # {}
    /\ pc = "returned"

\* C29: a step of output_guard keeps every earlier entry of guardrail_results
\* in place and every existing message as it is. It leaves guardrail_results
\* exactly as it was when every SQL-bearing message passes the output checks
\* and masking changes no row; it appends entries only when a check blocks or
\* masked rows differ from the original rows.
IsPrefix(a, b) == Len(a) <= Len(b) /\ SubSeq(b, 1, Len(a)) = a

SqlBearing(msgs) ==
    {i \in 1..Len(msgs) : msgs[i].type = "tool" /\ msgs[i].data.sql # <<>>}

BlocksOrMasks(msg) ==
    \/ is_blocked(output_check_all(msg.data.sql))
    \/ msg.data.rows = "sensitive"

OutputGuardFrame ==
    (pc = "output_guard" /\ trace' = Append(trace, "output_guard")) =>
        /\ IsPrefix(guardrail_results, guardrail_results')
        /\ IsPrefix(messages, messages')
        /\ (\A i \in SqlBearing(messages) : ~BlocksOrMasks(messages[i]))
               => guardrail_results' = guardrail_results
        /\ guardrail_results' # guardrail_results
               => \E i \in SqlBearing(messages) : BlocksOrMasks(messages[i])

TimedOut == http.status = 504

InvokeReturnedInTime == pc = "done" /\ result.returned

\* C30: a /query request attempts record_cost at most once: never when the
\* request timed out (also after the abandoned invocation returns), exactly
\* once when invoke returned before the timeout; the attempt precedes the
\* construction of QueryResponse, so a request that ends in 500 because the
\* response could not be built has its cost row, written with success = true.
C30_RecordCostOncePerReturnedRequest ==
    /\ Len(cost_rows) <= 1
    /\ TimedOut => cost_rows = <<>>
    /\ InvokeReturnedInTime => Len(cost_rows) = 1
    /\ (InvokeReturnedInTime /\ http.status = 500) => cost_rows[1].success

\* invoke returned in time, the response could not be built (500), and the
\* cost row is there.
C30_Witness ==
    /\ InvokeReturnedInTime
    /\ http.status = 500
    /\ Len(cost_rows) = 1
    /\ cost_rows[1].success

====
